---- MODULE Spec2Model ----
(***************************************************************************)
(* Model of mrexodia/logging-proxy.                                        *)
(*                                                                         *)
(* Spec       : one inbound request handled by ProxyServer.handleRequest   *)
(*              (src/server.go): route lookup, proxyWithDuplex with its    *)
(*              two io.Pipe taps, the streamToLoggingServer goroutines and *)
(*              the logging server they push to.                           *)
(* FairSpec   : Spec with the fairness the Go scheduler, the backend and   *)
(*              the logging client's 30s timeout provide.                  *)
(* LegacySpec : LoggingTransport.RoundTrip of src/main.go, the buffering   *)
(*              transport behind httputil.ReverseProxy.                    *)
(* RouteSpec  : NewProxyServer and the route lookup of handleRequest       *)
(*              (src/server.go) over configurations of several routes.     *)
(* MuxSpec    : the http.ServeMux version (src/logging.go): setupPatterns, *)
(*              Start, the dispatch of one request, handleUnknownRoute.    *)
(* ConcSpec   : several requests handled at the same time, each with its  *)
(*              own requestID, taps and pushes.                            *)
(* EncodingSpec : Spec over requests and responses that may carry          *)
(*              Content-Encoding: gzip.                                    *)
(* SinkSpec   : one call of a Logger implementation (src/logger.go,        *)
(*              src/file_logger.go) on the stream of a tee.                *)
(* DecodeSpec : the content-decoding pipeline, decompress(stream,          *)
(*              encoding), and the body it gives the log.                  *)
(* LogServerSpec : handleLogRequest of the logging server                  *)
(*              (src/unnamed/part_004) on one request, step by step.       *)
(* StreamSpec : StreamingLogger.Read of src/main.go on one streaming       *)
(*              response, with the reads that follow io.EOF.               *)
(* NameSpec   : generateUniqueFilename and the two os.WriteFile calls of   *)
(*              one log writer over any set of existing files.             *)
(* FileSpec   : the same for several log writers at the same time.         *)
(*                                                                         *)
(* A body is a sequence of chunks; a chunk is what one Read returns.       *)
(* An io.Pipe is a rendezvous: Write parks one chunk in buf and returns    *)
(* only when a Read has taken it or the read end is closed.                *)
(***************************************************************************)
EXTENDS Integers, Sequences, FiniteSets, TLC

\* Longest request / response body, in chunks.
MaxChunks == 2

(***************************************************************************)
(* strings, as sequences of characters                                     *)
(***************************************************************************)
HasPrefix(s, prefix) ==
    /\ Len(prefix) <= Len(s)
    /\ SubSeq(s, 1, Len(prefix)) = prefix

HasSuffix(s, suffix) ==
    /\ Len(suffix) <= Len(s)
    /\ SubSeq(s, Len(s) - Len(suffix) + 1, Len(s)) = suffix

TrimSuffix(s, suffix) ==
    IF HasSuffix(s, suffix) THEN SubSeq(s, 1, Len(s) - Len(suffix)) ELSE s

TrimPrefix(s, prefix) ==
    IF HasPrefix(s, prefix) THEN SubSeq(s, Len(prefix) + 1, Len(s)) ELSE s

(***************************************************************************)
(* configuration: Config.Routes as loaded into ProxyServer.Routes          *)
(***************************************************************************)
NoRoute == [Source |-> <<>>, Destination |-> [ParseOK |-> FALSE, Host |-> "", Path |-> <<>>],
            Logging |-> FALSE, Flag |-> "unset", Nil |-> TRUE]

\* The `logging:` key of a route in the YAML file: present with a value, or
\* absent.
LoggingFlags == {"true", "false", "unset"}

\* yaml.Unmarshal into `Logging bool`: an absent key leaves the zero value.
yamlBool(flag) == flag = "true"

\* Route{Source, Destination, Logging} as loaded from the YAML file;
\* Destination is kept as url.Parse returns it (ParseOK is false when
\* url.Parse returns an error). Flag remembers what the file said.
Route(source, ok, host, destPath, flag) ==
    [Source |-> source,
     Destination |-> [ParseOK |-> ok, Host |-> host, Path |-> destPath],
     Logging |-> yamlBool(flag), Flag |-> flag, Nil |-> FALSE]

Routes ==
    { Route(<<"/", "a", "/">>, TRUE, "backend-a", <<"/", "v", "/">>, "true"),
      Route(<<"/", "b", "/">>, TRUE, "backend-a", <<>>, "false"),
      Route(<<"/", "u", "/">>, TRUE, "backend-a", <<>>, "unset"),
      Route(<<"/", "e", "/">>, FALSE, "", <<>>, "true") }

\* The inbound paths the model sends.
Paths ==
    { <<"/", "a", "/", "x">>, <<"/", "b", "/", "x">>, <<"/", "u", "/", "x">>,
      <<"/", "e", "/", "x">>, <<"/", "c">> }

\* Go iterates a map in an unspecified order: every order is possible.
RouteOrders ==
    { o \in [1..Cardinality(Routes) -> Routes] :
        \A i, j \in 1..Cardinality(Routes) : o[i] = o[j] => i = j }

\* The loop of findMatchingRoute over the routes in iteration order.
RECURSIVE findMatchingRouteFrom(_, _, _, _)
findMatchingRouteFrom(order, path, bestMatch, bestLength) ==
    IF order = <<>> THEN bestMatch
    ELSE LET route == Head(order)
             trimmedSource == TrimSuffix(route.Source, <<"/">>)
         IN  IF HasPrefix(path, trimmedSource) /\ Len(trimmedSource) > bestLength
             THEN findMatchingRouteFrom(Tail(order), path, route, Len(trimmedSource))
             ELSE findMatchingRouteFrom(Tail(order), path, bestMatch, bestLength)

findMatchingRoute(order, path) == findMatchingRouteFrom(order, path, NoRoute, 0)

\* transformPath, on the parsed destination.
transformPath(originalPath, sourcePath, destURL) ==
    LET sourceTrimmed == TrimSuffix(sourcePath, <<"/">>)
        remainingPath == TrimPrefix(originalPath, sourceTrimmed)
        destPath      == TrimSuffix(destURL.Path, <<"/">>)
    IN  IF destPath = <<>> \/ destPath = <<"/">>
        THEN remainingPath
        ELSE destPath \o remainingPath

(***************************************************************************)
(* bodies                                                                  *)
(***************************************************************************)
\* Text is a sequence of tokens. A body Read returns one token, named after
\* its stream and its position, so a chunk that is dropped, repeated,
\* reordered or crosses from one stream to the other shows.
ReqChunkNames  == <<"q1", "q2", "q3", "q4">>
RespChunkNames == <<"r1", "r2", "r3", "r4">>
ReqBodies  == { [i \in 1..n |-> ReqChunkNames[i]] : n \in 0..MaxChunks }
RespBodies == { [i \in 1..n |-> RespChunkNames[i]] : n \in 0..MaxChunks }

UpstreamStatuses == {200}

StatusOK                  == 200
StatusCreated             == 201
StatusNotFound            == 404
StatusInternalServerError == 500
StatusBadGateway          == 502

\* The request ID of the one request (uuid.New().String()).
RequestIDs == {"uuid-1"}

Kinds == {"request", "response"}

\* io.Pipe()
NewPipe == [buf |-> <<>>, wclosed |-> FALSE, rclosed |-> FALSE]

\* What streamToLoggingServer writes before the body: the request or status
\* line, the headers and the empty line.
NoHeader == [type |-> "", method |-> "", uri |-> <<>>, host |-> "",
             status |-> 0, proxyPath |-> <<>>, fields |-> {}]

\* The headers streamToLoggingServer writes from req.Header: all but the
\* ones it handles itself.
LoggedFields(h) ==
    { f \in h : f[1] \notin {"Host", "Content-Length", "Transfer-Encoding"} }

RequestHeader(method, uri, host, proxyPath, h) ==
    [type |-> "request", method |-> method, uri |-> uri, host |-> host,
     status |-> 0, proxyPath |-> proxyPath, fields |-> LoggedFields(h)]
ResponseHeader(status, h) ==
    [type |-> "response", method |-> "", uri |-> <<>>, host |-> "",
     status |-> status, proxyPath |-> <<>>, fields |-> h]

\* Config.Logging.ServerURL
LoggingServerURL == "http://logs:8080"

StatusBadRequest       == 400
StatusMethodNotAllowed == 405

\* logReq of streamToLoggingServer: http.NewRequest("PUT", url, pipeReader)
\* with url = serverURL/requestID/streamType, the path by its segments, and
\* the Content-Type set on it.
NoLogReq == [method |-> "", server |-> "", path |-> <<>>, contentType |-> ""]

\* A logReq whose url has the request ID and the stream type exchanged.
NewLogRequest_PathSwapped(id, streamType) ==
    [method |-> "PUT", server |-> LoggingServerURL, path |-> <<streamType, id>>,
     contentType |-> "application/octet-stream"]

NewLogRequest(id, streamType) ==
    [method |-> "PUT", server |-> LoggingServerURL, path |-> <<id, streamType>>,
     contentType |-> "application/octet-stream"]

\* The statuses a logging server answers a complete and accepted PUT with.
SinkStatuses == {StatusCreated, StatusInternalServerError}

\* len(requestID) of the request IDs of the model; a UUID string has 36
\* characters.
IDLen(id) ==
    CASE id = "" -> 0
      [] id = "abc" -> 3
      [] id = "1234567" -> 7
      [] id = "request" -> 7
      [] id = "12345678" -> 8
      [] id = "123456789" -> 9
      [] OTHER -> 36

\* requestID[:8].
IDPrefix(id) ==
    CASE id = "123456789" -> "12345678"
      [] id = "12345678" -> "12345678"
      [] OTHER -> id \o "[:8]"

\* The handler panics (slice bounds out of range): net/http recovers, closes
\* the connection, and no status is answered.
NoStatus == 0

\* handleLogRequest that expects a path of three parts.
handleLogRequest_ThreeParts(req) ==
    IF req.method # "PUT"
    THEN {StatusMethodNotAllowed}
    ELSE IF Len(req.path) # 3
    THEN {StatusBadRequest}
    ELSE SinkStatuses

\* handleLogRequest of the logging server: the statuses it may answer a
\* request with. pathParts are the segments of the trimmed path.
handleLogRequest(req) ==
    IF req.method # "PUT"
    THEN {StatusMethodNotAllowed}
    ELSE IF Len(req.path) # 2
    THEN {StatusBadRequest}
    ELSE IF req.path[2] # "request" /\ req.path[2] # "response"
    THEN {StatusBadRequest}
    ELSE IF IDLen(req.path[1]) < 8
    THEN {NoStatus}
    ELSE SinkStatuses

\* One Write to the push pipe.
HeaderItem(h) == [isHeader |-> TRUE, header |-> h, data |-> <<>>]
DataItem(c)   == [isHeader |-> FALSE, header |-> NoHeader, data |-> c]

\* fmt.Fprintln(w, text), as http.Error writes its body.
Fprintln(text) == text \o <<"\n">>

\* strings.Contains(text, token)
Contains(text, token) == \E i \in 1..Len(text) : text[i] = token

\* responseBody := "404 page not found\n" of logUnknownRoute.
responseBody == <<"404 page not found", "\n">>

VARIABLES
    \* the inbound request and the configuration
    path,            \* r.URL.Path
    method,          \* r.Method
    defaultLogging,  \* Config.Logging.Default
    bodyNil,         \* originalReq.Body == nil
    inbound,         \* chunks of r.Body not read yet
    reqRead,         \* chunks read from r.Body so far
    inboundClosed,   \* r.Body closed (by the transport or by the server)
    \* the backend
    upstream,        \* chunks of resp.Body not read yet
    upstreamStatus,  \* resp.StatusCode
    respRead,        \* chunks read from resp.Body so far
    backendRecv,     \* body chunks delivered to the backend
    \* the handler goroutine
    hpc,             \* where handleRequest / proxyWithDuplex stands
    requestID,
    route,           \* result of findMatchingRoute
    shouldLog,
    targetURL,
    doAttempts,      \* number of client.Do calls
    dispatchFailed,  \* client.Do returned an error
    gotResponse,     \* client.Do returned a response
    err,             \* the error proxyWithDuplex returns
    held,            \* chunks read from resp.Body and not yet written to w
    \* the client
    clientStatus,    \* status written to w, 0 before WriteHeader
    clientRecv,      \* body written to w
    clientGone,      \* the client has disconnected
    \* the transport goroutine that sends proxyReq.Body
    tpc,
    tchunk,
    \* logging, per stream type
    tap,             \* logPipeReader/logPipeWriter
    push,            \* pipeReader/pipeWriter of streamToLoggingServer
    spawned,         \* number of `go s.streamToLoggingServer` per stream type
    wpc,             \* the goroutine that writes the message into push
    wsrc,            \* its reader: "nil", "tap", "body" or "literal"
    literal,         \* what is left of a strings.NewReader
    header,          \* the header block it writes
    logReq,          \* logReq, the PUT to the logging server
    sink,            \* loggingClient.Do and the logging server
    sinkRecv,        \* what the logging server has received
    warnings,        \* log.Printf lines
    \* the buffering transport of src/main.go
    lpc,             \* where ReverseProxy.ServeHTTP / RoundTrip stands
    respContentType, \* resp.Header.Get("Content-Type")
    respTransferEncoding, \* resp.Header.Get("Transfer-Encoding")
    requestBody,     \* requestBody of RoundTrip
    buffer,          \* StreamingLogger.buffer
    logged,          \* StreamingLogger.logged
    pendingLog,      \* arguments of a started `go t.logRequestResponse`
    files,           \* the -request.bin / -response.bin pairs written
    \* start-up and routing
    rpc,             \* where start-up and the routing of the request stand
    config,          \* Config.Routes: the names of the routes in the YAML file
    routeTable,      \* ProxyServer.Routes, source -> route
    rawQuery,        \* r.URL.RawQuery
    target,          \* targetURL.String() handed to proxyWithDuplex
    mux,             \* the patterns registered with the http.ServeMux
    \* several requests handled at the same time
    cpc,             \* where each handler stands
    cid,             \* its requestID
    cinbound,        \* chunks of its r.Body not read yet
    cupstream,       \* chunks of its resp.Body not read yet
    cbackend,        \* what the backend has received of it
    cclient,         \* what its client has received
    cpush,           \* its pushes: what is written and not yet sent
    cstore,          \* the logging server: what arrived under each URL path
    \* the headers of the request and of the response
    reqHeaders,      \* r.Header, as name/value pairs
    respHeaders,     \* resp.Header
    \* one call of a Logger implementation on the stream of a tee
    logger,          \* the implementation: NoOpLogger or FileLogger
    loggedType,      \* "request" or "response"
    stream,          \* the io.ReadCloser handed to the logger: the read end of a pipe
    teeSrc,          \* chunks the tee has not written to the pipe yet
    teeErr,          \* a Write of the tee returned io.ErrClosedPipe
    fpc,             \* where the logger stands
    createErr,       \* os.Create of the log file fails
    writeErrAt,      \* the Write to the log file that fails, 0 for none
    file,            \* the log file
    sawEOF,          \* the logger has read the stream to io.EOF
    \* one request whose body is decoded for the log
    dpc,             \* where the forwarding of the body stands
    dplain,          \* the body before the client compressed it
    dencs,           \* the entries of its Content-Encoding header, in order
    dwire,           \* the body on the wire
    dbackend,        \* what the backend has received
    dtap,            \* what the tee has written for the log and is not read yet
    dlog,            \* the body of the raw log message
    dstatus,         \* the status the client has received, 0 for none yet
    \* the logging server handling an arbitrary request
    lsMethod,        \* r.Method of a request to the logging server
    lsPath,          \* r.URL.Path, as "/" and the names between them
    lsCreateErr,     \* os.Create of the log file fails
    lsCopyErr,       \* io.Copy of the body to the file fails
    lsPc,            \* where handleLogRequest stands
    lsStatus,        \* the status it has answered, 0 for none
    lsFiles,         \* the files created under logs/
    \* a StreamingLogger read by an arbitrary caller
    eofReads,        \* number of Reads of the StreamingLogger that returned io.EOF
    wrapErr,         \* the wrapped body fails with an error that is not io.EOF
    eofWithData,     \* the wrapped body returns its last chunk together with io.EOF
    \* the log writers that save binary files
    disk,            \* the names of the files that exist
    gts,             \* the timestamp of each log writer
    gbodies,         \* which of its two bodies are not empty
    gpc,             \* where each log writer stands
    gcounter,        \* counter of its generateUniqueFilename
    gname,           \* the base name generateUniqueFilename returned to it
    gwrote           \* the files it has written

inputVars   == <<path, method, defaultLogging, bodyNil, upstreamStatus>>
inboundVars == <<inbound, reqRead, inboundClosed>>
backendVars == <<upstream, respRead, backendRecv>>
handlerVars == <<hpc, requestID, route, shouldLog, targetURL, doAttempts,
                 dispatchFailed, gotResponse, err, held>>
clientVars  == <<clientStatus, clientRecv, clientGone>>
transportVars == <<tpc, tchunk>>
logVars     == <<tap, push, spawned, wpc, wsrc, literal, header, logReq, sink,
                 sinkRecv>>

legacyVars  == <<lpc, respContentType, respTransferEncoding, requestBody,
                 buffer, logged, pendingLog, files>>

routingVars == <<rpc, config, routeTable, rawQuery, target, mux>>

concVars == <<cpc, cid, cinbound, cupstream, cbackend, cclient, cpush, cstore>>

hdrVars == <<reqHeaders, respHeaders>>

sinkVars == <<logger, loggedType, stream, teeSrc, teeErr, fpc, createErr,
              writeErrAt, file, sawEOF>>

decodeVars == <<dpc, dplain, dencs, dwire, dbackend, dtap, dlog, dstatus>>

logServerVars == <<lsMethod, lsPath, lsCreateErr, lsCopyErr, lsPc, lsStatus, lsFiles>>

streamVars == <<eofReads, wrapErr, eofWithData>>

fileVars == <<disk, gts, gbodies, gpc, gcounter, gname, gwrote>>

extVars == <<concVars, hdrVars, sinkVars, decodeVars, logServerVars, streamVars, fileVars>>

vars == <<inputVars, inboundVars, backendVars, handlerVars, clientVars,
          transportVars, logVars, warnings, legacyVars, routingVars, extVars>>

\* No request of the concurrent model is under way.
ConcOff ==
    /\ cpc = <<>>
    /\ cid = <<>>
    /\ cinbound = <<>>
    /\ cupstream = <<>>
    /\ cbackend = <<>>
    /\ cclient = <<>>
    /\ cpush = <<>>
    /\ cstore = <<>>

\* The headers of a request and of a response without Content-Encoding.
PlainHeaders == { <<"Content-Type", "application/json">> }

\* r.Host of the inbound request.
RequestHost == "proxy"

NoEncoding ==
    /\ reqHeaders = PlainHeaders
    /\ respHeaders = PlainHeaders

\* os.Create has not been called.
NoFile == [created |-> FALSE, header |-> NoHeader, body |-> <<>>, metadata |-> FALSE]

\* No Logger implementation is called directly.
SinkOff ==
    /\ logger = ""
    /\ loggedType = ""
    /\ stream = NewPipe
    /\ teeSrc = <<>>
    /\ teeErr = FALSE
    /\ fpc = "off"
    /\ createErr = FALSE
    /\ writeErrAt = 0
    /\ file = NoFile
    /\ sawEOF = FALSE

\* No body is decoded on its own.
DecodeOff ==
    /\ dpc = "off"
    /\ dplain = ""
    /\ dencs = <<>>
    /\ dwire = ""
    /\ dbackend = <<>>
    /\ dtap = <<>>
    /\ dlog = <<>>
    /\ dstatus = 0

\* The logging server is not called directly.
LogServerOff ==
    /\ lsMethod = ""
    /\ lsPath = <<>>
    /\ lsCreateErr = FALSE
    /\ lsCopyErr = FALSE
    /\ lsPc = "off"
    /\ lsStatus = 0
    /\ lsFiles = {}

\* No StreamingLogger is read directly.
StreamOff ==
    /\ eofReads = 0
    /\ wrapErr = FALSE
    /\ eofWithData = FALSE

\* No binary files are written.
FileOff ==
    /\ disk = {}
    /\ gts = <<>>
    /\ gbodies = <<>>
    /\ gpc = <<>>
    /\ gcounter = <<>>
    /\ gname = <<>>
    /\ gwrote = <<>>

ExtOff == ConcOff /\ NoEncoding /\ SinkOff /\ DecodeOff /\ LogServerOff /\ StreamOff /\ FileOff

Init ==
    /\ path \in Paths
    /\ method \in {"POST"}
    \* Config.Logging.Default is read on the unmatched path only; for a
    \* matched path the model keeps it true.
    /\ defaultLogging \in IF \E o \in RouteOrders : findMatchingRoute(o, path).Nil
                          THEN BOOLEAN ELSE {TRUE}
    /\ inbound \in ReqBodies
    /\ bodyNil \in IF inbound = <<>> THEN BOOLEAN ELSE {FALSE}
    /\ reqRead = <<>>
    /\ inboundClosed = FALSE
    /\ upstream \in RespBodies
    /\ upstreamStatus \in UpstreamStatuses
    /\ respRead = <<>>
    /\ backendRecv = <<>>
    /\ hpc = "start"
    /\ requestID \in RequestIDs
    /\ route = NoRoute
    /\ shouldLog = FALSE
    /\ targetURL = [Host |-> "", Path |-> <<>>]
    /\ doAttempts = 0
    /\ dispatchFailed = FALSE
    /\ gotResponse = FALSE
    /\ err = <<>>
    /\ held = <<>>
    /\ clientStatus = 0
    /\ clientRecv = <<>>
    /\ clientGone = FALSE
    /\ tpc = "idle"
    /\ tchunk = ""
    /\ tap = [k \in Kinds |-> NewPipe]
    /\ push = [k \in Kinds |-> NewPipe]
    /\ spawned = [k \in Kinds |-> 0]
    /\ wpc = [k \in Kinds |-> "none"]
    /\ wsrc = [k \in Kinds |-> "nil"]
    /\ literal = [k \in Kinds |-> <<>>]
    /\ header = [k \in Kinds |-> NoHeader]
    /\ logReq = [k \in Kinds |-> NoLogReq]
    /\ sink = [k \in Kinds |-> "none"]
    /\ sinkRecv = [k \in Kinds |-> <<>>]
    /\ warnings = {}
    /\ lpc = "off"
    /\ respContentType = <<>>
    /\ respTransferEncoding = ""
    /\ requestBody = <<>>
    /\ buffer = <<>>
    /\ logged = FALSE
    /\ pendingLog = <<>>
    /\ files = <<>>
    /\ rpc = "off"
    /\ config = {}
    /\ routeTable = <<>>
    /\ rawQuery = <<>>
    /\ target = <<>>
    /\ mux = {}
    /\ ExtOff

\* fmt.Sprintf("http://%s:%d%s", Host, Port, r.URL.Path): the inbound URL.
ProxyPath(p) ==
    <<"http://proxy">> \o p \o (IF rawQuery # <<>> THEN <<"?">> \o rawQuery ELSE <<>>)

\* `go s.streamToLoggingServer(reader, requestID, k, ...)`: the new values
\* of the logging variables once the goroutine is started.
Spawn(k, src, h, lit, newTap) ==
    /\ spawned' = [spawned EXCEPT ![k] = @ + 1]
    /\ wpc' = [wpc EXCEPT ![k] = "header"]
    /\ wsrc' = [wsrc EXCEPT ![k] = src]
    /\ literal' = [literal EXCEPT ![k] = lit]
    /\ header' = [header EXCEPT ![k] = h]
    /\ logReq' = [logReq EXCEPT ![k] = NewLogRequest(requestID, k)]
    /\ push' = [push EXCEPT ![k] = NewPipe]
    /\ tap' = [tap EXCEPT ![k] = newTap]
    /\ sink' = [sink EXCEPT ![k] = "open"]
    /\ UNCHANGED sinkRecv

\* The server closes r.Body when the handler returns.
Return ==
    /\ hpc' = "done"
    /\ inboundClosed' = TRUE

\* http.Error / http.NotFound: the status if none was written yet, then the
\* text as body; a write to a client that is gone is lost.
HttpError(text, code) ==
    /\ clientStatus' = IF clientStatus = 0 THEN code ELSE clientStatus
    /\ clientRecv' = IF clientGone THEN clientRecv ELSE clientRecv \o Fprintln(text)

\* log.Printf
Warn(what, text) ==
    warnings' = warnings \cup {[what |-> what, id |-> requestID, text |-> text]}

\* What findMatchingRoute may return for the inbound path.
Matches == { findMatchingRoute(o, path) : o \in RouteOrders }

(***************************************************************************)
(* handleRequest, unmatched path                                           *)
(***************************************************************************)
\* handleRequest, route == nil and Config.Logging.Default is false.
HandleNotFound ==
    /\ hpc = "start"
    /\ \E r \in Matches : r.Nil /\ route' = r
    /\ ~defaultLogging
    /\ HttpError(<<"404 page not found">>, StatusNotFound)
    /\ Return
    /\ UNCHANGED <<legacyVars, routingVars, extVars, inputVars, inbound, reqRead, backendVars, requestID, shouldLog,
                   targetURL, doAttempts, dispatchFailed, gotResponse, err, held, clientGone,
                   transportVars, logVars, warnings>>

\* logUnknownRoute without its first `go s.streamToLoggingServer`.
LogUnknownRouteRequest_NotStarted ==
    /\ hpc = "start"
    /\ \E r \in Matches : r.Nil /\ route' = r
    /\ defaultLogging
    /\ hpc' = "unknownHeader"
    /\ UNCHANGED <<legacyVars, routingVars, extVars, inputVars, inboundVars, backendVars, requestID, shouldLog,
                   targetURL, doAttempts, dispatchFailed, gotResponse, err, held, clientVars,
                   transportVars, logVars, warnings>>

\* handleRequest, route == nil and Config.Logging.Default is true:
\* logUnknownRoute up to the first `go s.streamToLoggingServer`.
LogUnknownRouteRequest ==
    /\ hpc = "start"
    /\ \E r \in Matches : r.Nil /\ route' = r
    /\ defaultLogging
    /\ Spawn("request", IF bodyNil THEN "nil" ELSE "body",
             RequestHeader(method, path, RequestHost, ProxyPath(path), reqHeaders), <<>>,
             tap["request"])
    /\ hpc' = "unknownHeader"
    /\ UNCHANGED <<legacyVars, routingVars, extVars, inputVars, inboundVars, backendVars, requestID, shouldLog,
                   targetURL, doAttempts, dispatchFailed, gotResponse, err, held, clientVars,
                   transportVars, warnings>>

\* logUnknownRoute without its second `go s.streamToLoggingServer`.
LogUnknownRouteResponse_NoLog ==
    /\ hpc = "unknownHeader"
    /\ clientStatus' = StatusNotFound
    /\ hpc' = "unknownWrite"
    /\ UNCHANGED <<legacyVars, routingVars, extVars, inputVars, inboundVars, backendVars, requestID, route, shouldLog,
                   targetURL, doAttempts, dispatchFailed, gotResponse, err, held, clientRecv,
                   clientGone, transportVars, logVars, warnings>>

\* logUnknownRoute: w.WriteHeader(404), the fake response and the second
\* `go s.streamToLoggingServer`.
LogUnknownRouteResponse ==
    /\ hpc = "unknownHeader"
    /\ clientStatus' = StatusNotFound
    /\ Spawn("response", "literal", ResponseHeader(StatusNotFound, {}),
             responseBody, tap["response"])
    /\ hpc' = "unknownWrite"
    /\ UNCHANGED <<legacyVars, routingVars, extVars, inputVars, inboundVars, backendVars, requestID, route, shouldLog,
                   targetURL, doAttempts, dispatchFailed, gotResponse, err, held, clientRecv,
                   clientGone, transportVars, warnings>>

\* logUnknownRoute with w.Write(responseBody) placed before the second
\* `go s.streamToLoggingServer`.
LogUnknownRouteWrite_Early ==
    /\ hpc \in {"unknownHeader", "unknownWrite"}
    /\ clientRecv' = IF clientGone THEN clientRecv ELSE clientRecv \o responseBody
    /\ Return
    /\ UNCHANGED <<legacyVars, routingVars, extVars, inputVars, inbound, reqRead, backendVars, requestID, route,
                   shouldLog, targetURL, doAttempts, dispatchFailed, gotResponse, err, held,
                   clientStatus, clientGone, transportVars, logVars, warnings>>

\* logUnknownRoute: w.Write(responseBody), and the handler returns.
LogUnknownRouteWrite ==
    /\ hpc = "unknownWrite"
    /\ clientRecv' = IF clientGone THEN clientRecv ELSE clientRecv \o responseBody
    /\ Return
    /\ UNCHANGED <<legacyVars, routingVars, extVars, inputVars, inbound, reqRead, backendVars, requestID, route,
                   shouldLog, targetURL, doAttempts, dispatchFailed, gotResponse, err, held,
                   clientStatus, clientGone, transportVars, logVars, warnings>>

(***************************************************************************)
(* handleRequest, matched path, and proxyWithDuplex                        *)
(***************************************************************************)
\* url.Parse(route.Destination) fails: 500.
HandleInvalidDestination ==
    /\ hpc = "start"
    /\ \E r \in Matches :
        /\ ~r.Nil /\ ~r.Destination.ParseOK
        /\ route' = r
        /\ shouldLog' = r.Logging
    /\ HttpError(<<"Invalid destination URL">>, StatusInternalServerError)
    /\ Return
    /\ UNCHANGED <<legacyVars, routingVars, extVars, inputVars, inbound, reqRead, backendVars, requestID,
                   targetURL, doAttempts, dispatchFailed, gotResponse, err, held, clientGone,
                   transportVars, logVars, warnings>>

\* handleRequest that logs every matched request, whatever route.Logging.
HandleMatched_AlwaysLog ==
    /\ hpc = "start"
    /\ \E r \in Matches :
        /\ ~r.Nil /\ r.Destination.ParseOK
        /\ route' = r
        /\ shouldLog' = TRUE
        /\ targetURL' = [Host |-> r.Destination.Host,
                         Path |-> transformPath(path, r.Source, r.Destination)]
    /\ Spawn("request", IF bodyNil THEN "nil" ELSE "tap",
             RequestHeader(method, targetURL'.Path, targetURL'.Host,
                           ProxyPath(path), reqHeaders),
             <<>>, NewPipe)
    /\ doAttempts' = doAttempts + 1
    /\ tpc' = "read"
    /\ hpc' = "do"
    /\ UNCHANGED <<legacyVars, routingVars, extVars, inputVars, inboundVars, backendVars, requestID,
                   dispatchFailed, gotResponse, err, held, clientVars, tchunk, warnings>>

\* handleRequest for a matched route, and proxyWithDuplex up to the call of
\* client.Do: the request tap is set up and the request log started.
HandleMatched ==
    /\ hpc = "start"
    /\ \E r \in Matches :
        /\ ~r.Nil /\ r.Destination.ParseOK
        /\ route' = r
        /\ shouldLog' = r.Logging
        /\ targetURL' = [Host |-> r.Destination.Host,
                         Path |-> transformPath(path, r.Source, r.Destination)]
    /\ IF shouldLog'
       THEN Spawn("request", IF bodyNil THEN "nil" ELSE "tap",
                  RequestHeader(method, targetURL'.Path, targetURL'.Host,
                                ProxyPath(path), reqHeaders),
                  <<>>, NewPipe)
       ELSE UNCHANGED logVars
    /\ doAttempts' = doAttempts + 1
    /\ tpc' = "read"
    /\ hpc' = "do"
    /\ UNCHANGED <<legacyVars, routingVars, extVars, inputVars, inboundVars, backendVars, requestID,
                   dispatchFailed, gotResponse, err, held, clientVars, tchunk, warnings>>

\* proxyReq.Body is the requestBodyCloser around the TeeReader.
Teed == shouldLog /\ ~bodyNil

\* requestBodyCloser.Close that closes r.original only.
requestBodyCloserClose_NoPipeClose(t) == t

\* requestBodyCloser.Close on the tap: r.pipeWriter.Close().
requestBodyCloserClose(t) == [t EXCEPT !.wclosed = TRUE]

\* The transport closes proxyReq.Body.
CloseRequestBody ==
    /\ tap' = IF Teed
              THEN [tap EXCEPT !["request"] = requestBodyCloserClose(@)]
              ELSE tap
    /\ inboundClosed' = TRUE

\* The transport reads proxyReq.Body. Through the TeeReader a chunk read
\* from r.Body is first written to logPipeWriter; without it the chunk goes
\* to the backend. At end of body the transport closes the body.
TransportRead ==
    /\ tpc = "read"
    /\ IF bodyNil
       THEN /\ tpc' = "done"
            /\ UNCHANGED <<inboundVars, tap, tchunk, backendRecv>>
       ELSE IF inbound # <<>>
       THEN /\ inbound' = Tail(inbound)
            /\ reqRead' = Append(reqRead, Head(inbound))
            /\ UNCHANGED inboundClosed
            /\ IF Teed
               THEN /\ tap' = [tap EXCEPT !["request"].buf = <<Head(inbound)>>]
                    /\ tchunk' = Head(inbound)
                    /\ tpc' = "tee"
                    /\ UNCHANGED backendRecv
               ELSE /\ backendRecv' = Append(backendRecv, Head(inbound))
                    /\ UNCHANGED <<tap, tchunk, tpc>>
       ELSE /\ CloseRequestBody
            /\ tpc' = "done"
            /\ UNCHANGED <<inbound, reqRead, tchunk, backendRecv>>
    /\ UNCHANGED <<legacyVars, routingVars, extVars, inputVars, upstream, respRead, handlerVars, clientVars,
                   push, spawned, wpc, wsrc, literal, header, logReq, sink, sinkRecv,
                   warnings>>

\* The write to logPipeWriter returns once the logger has read the chunk;
\* TeeReader.Read then returns it and the transport sends it.
TransportTee ==
    /\ tpc = "tee"
    /\ tap["request"].buf = <<>>
    /\ backendRecv' = Append(backendRecv, tchunk)
    /\ tchunk' = ""
    /\ tpc' = "read"
    /\ UNCHANGED <<legacyVars, routingVars, extVars, inputVars, inboundVars, upstream, respRead, handlerVars,
                   clientVars, logVars, warnings>>

\* client.Do returns the response: the backend answers a request it has
\* received completely.
DoReturns ==
    /\ hpc = "do"
    /\ tpc = "done"
    /\ gotResponse' = TRUE
    /\ hpc' = "headers"
    /\ UNCHANGED <<legacyVars, routingVars, extVars, inputVars, inboundVars, backendVars, requestID, route,
                   shouldLog, targetURL, doAttempts, dispatchFailed, err, held,
                   clientVars, transportVars, logVars, warnings>>

\* A dispatch failure followed by a second client.Do.
DoFails_Retry ==
    /\ hpc = "do"
    /\ tpc \in {"read", "done"}
    /\ IF tpc = "read"
       THEN CloseRequestBody
       ELSE UNCHANGED <<tap, inboundClosed>>
    /\ tpc' = "failed"
    /\ dispatchFailed' = TRUE
    /\ doAttempts' = doAttempts + 1
    /\ err' = <<"proxy request failed: ", "connection refused">>
    /\ hpc' = "proxyError"
    /\ UNCHANGED <<legacyVars, routingVars, extVars, inputVars, inbound, reqRead, backendVars, requestID, route,
                   shouldLog, targetURL, gotResponse, held,
                   clientVars, tchunk, push, spawned, wpc, wsrc, literal, header, logReq, sink, sinkRecv,
                   warnings>>

\* client.Do returns an error (connection refused, reset, ...) before a
\* response; the transport closes the request body even on errors.
DoFails ==
    /\ hpc = "do"
    /\ tpc \in {"read", "done"}
    /\ IF tpc = "read"
       THEN CloseRequestBody
       ELSE UNCHANGED <<tap, inboundClosed>>
    /\ tpc' = "failed"
    /\ dispatchFailed' = TRUE
    /\ err' = <<"proxy request failed: ", "connection refused">>
    /\ hpc' = "proxyError"
    /\ UNCHANGED <<legacyVars, routingVars, extVars, inputVars, inbound, reqRead, backendVars, requestID, route,
                   shouldLog, targetURL, doAttempts, gotResponse, held,
                   clientVars, tchunk, push, spawned, wpc, wsrc, literal, header, logReq, sink, sinkRecv,
                   warnings>>

\* proxyWithDuplex without w.WriteHeader(resp.StatusCode) before the copy.
WriteHeaders_Late ==
    /\ hpc = "headers"
    /\ IF shouldLog
       THEN Spawn("response", "tap", ResponseHeader(upstreamStatus, respHeaders), <<>>, NewPipe)
       ELSE UNCHANGED logVars
    /\ hpc' = "copyRead"
    /\ UNCHANGED <<legacyVars, routingVars, extVars, inputVars, inboundVars, backendVars, requestID, route,
                   shouldLog, targetURL, doAttempts, dispatchFailed, gotResponse, err, held,
                   clientVars, transportVars, warnings>>

\* proxyWithDuplex: the response headers and status go to the client; with
\* logging the response tap is set up and the response log started.
WriteHeaders ==
    /\ hpc = "headers"
    /\ clientStatus' = upstreamStatus
    /\ IF shouldLog
       THEN Spawn("response", "tap", ResponseHeader(upstreamStatus, respHeaders), <<>>, NewPipe)
       ELSE UNCHANGED logVars
    /\ hpc' = "copyRead"
    /\ UNCHANGED <<legacyVars, routingVars, extVars, inputVars, inboundVars, backendVars, requestID, route,
                   shouldLog, targetURL, doAttempts, dispatchFailed, gotResponse, err, held,
                   clientRecv, clientGone, transportVars, warnings>>

\* proxyWithDuplex without logPipeWriter.Close() after the copy.
CloseResponseTap_Forgotten == tap' = tap

\* After io.Copy: logPipeWriter.Close() when logging.
CloseResponseTap ==
    tap' = IF shouldLog
           THEN [tap EXCEPT !["response"].wclosed = TRUE]
           ELSE tap

\* io.Copy reads resp.Body: a chunk, or end of body and proxyWithDuplex
\* returns nil.
CopyRead ==
    /\ hpc = "copyRead"
    /\ IF upstream # <<>>
       THEN /\ held' = Append(held, Head(upstream))
            /\ respRead' = Append(respRead, Head(upstream))
            /\ upstream' = Tail(upstream)
            /\ hpc' = "copyWrite"
            /\ UNCHANGED <<tap, inboundClosed>>
       ELSE /\ CloseResponseTap
            /\ Return
            /\ UNCHANGED <<held, respRead, upstream>>
    /\ UNCHANGED <<legacyVars, routingVars, extVars, inputVars, inbound, reqRead, backendRecv, requestID, route,
                   shouldLog, targetURL, doAttempts, dispatchFailed, gotResponse, err,
                   clientVars, transportVars, push, spawned, wpc, wsrc, literal,
                   header, logReq, sink, sinkRecv, warnings>>

\* The read of resp.Body fails (the backend drops the connection in the
\* middle of the body): io.Copy returns the error.
CopyReadFails ==
    /\ hpc = "copyRead"
    /\ upstream # <<>>
    /\ upstream' = <<>>
    /\ CloseResponseTap
    /\ err' = <<"unexpected EOF">>
    /\ hpc' = "proxyError"
    /\ UNCHANGED <<legacyVars, routingVars, extVars, inputVars, inboundVars, respRead, backendRecv, requestID,
                   route, shouldLog, targetURL, doAttempts, dispatchFailed, gotResponse, held,
                   clientVars, transportVars, push, spawned, wpc, wsrc, literal,
                   header, logReq, sink, sinkRecv, warnings>>

\* io.Copy writes the chunk: to w, and through the MultiWriter then to
\* logPipeWriter. A failed write to w ends the copy.
CopyWrite ==
    /\ hpc = "copyWrite"
    /\ IF clientGone
       THEN /\ CloseResponseTap
            /\ err' = <<"write: broken pipe">>
            /\ hpc' = "proxyError"
            /\ held' = <<>>
            /\ UNCHANGED clientRecv
       ELSE /\ clientRecv' = clientRecv \o held
            /\ held' = <<>>
            /\ UNCHANGED err
            /\ IF shouldLog
               THEN /\ tap' = [tap EXCEPT !["response"].buf = held]
                    /\ hpc' = "copyTap"
               ELSE /\ hpc' = "copyRead"
                    /\ UNCHANGED tap
    /\ UNCHANGED <<legacyVars, routingVars, extVars, inputVars, inboundVars, backendVars, requestID, route,
                   shouldLog, targetURL, doAttempts, dispatchFailed, gotResponse,
                   clientStatus, clientGone, transportVars, push, spawned, wpc,
                   wsrc, literal, header, logReq, sink, sinkRecv, warnings>>

\* The write to logPipeWriter returns once the logger has read the chunk.
CopyTap ==
    /\ hpc = "copyTap"
    /\ tap["response"].buf = <<>>
    /\ hpc' = "copyRead"
    /\ UNCHANGED <<legacyVars, routingVars, extVars, inputVars, inboundVars, backendVars, requestID, route,
                   shouldLog, targetURL, doAttempts, dispatchFailed, gotResponse, err, held,
                   clientVars, transportVars, logVars, warnings>>

\* The client disconnects while the response is copied.
ClientDisconnects ==
    /\ hpc \in {"copyRead", "copyWrite", "copyTap"}
    /\ ~clientGone
    /\ clientGone' = TRUE
    /\ UNCHANGED <<legacyVars, routingVars, extVars, inputVars, inboundVars, backendVars, handlerVars,
                   clientStatus, clientRecv, transportVars, logVars, warnings>>

\* handleRequest, err != nil: log.Printf and
\* http.Error(w, "Proxy error", http.StatusBadGateway).
ProxyError ==
    /\ hpc = "proxyError"
    /\ Warn("Proxy error", err)
    /\ HttpError(<<"Proxy error">>, StatusBadGateway)
    /\ Return
    /\ UNCHANGED <<legacyVars, routingVars, extVars, inputVars, inbound, reqRead, backendVars, requestID, route,
                   shouldLog, targetURL, doAttempts, dispatchFailed, gotResponse, err, held,
                   clientGone, transportVars, logVars>>

(***************************************************************************)
(* streamToLoggingServer: the goroutine that writes the message into the   *)
(* push pipe                                                               *)
(***************************************************************************)
\* defer pipeWriter.Close(): the goroutine ends.
WriterEnds(k) ==
    /\ push' = [push EXCEPT ![k].wclosed = TRUE, ![k].buf = <<>>]
    /\ wpc' = [wpc EXCEPT ![k] = "done"]

\* pipeWriter.Write of what one Read returned, inside io.Copy: an error (the read end
\* was closed) ends the copy with a log line.
WriterWrites(k, c) ==
    IF push[k].rclosed
    THEN /\ WriterEnds(k)
         /\ Warn("Error streaming data", <<k>>)
    ELSE /\ push' = [push EXCEPT ![k].buf = <<DataItem(c)>>]
         /\ wpc' = [wpc EXCEPT ![k] = "wait"]
         /\ UNCHANGED warnings

\* The fmt.Fprintf calls that write the line, the headers and the empty
\* line; their errors are ignored.
WriterHeader(k) ==
    /\ wpc[k] = "header"
    /\ IF push[k].rclosed
       THEN /\ wpc' = [wpc EXCEPT ![k] = "read"]
            /\ UNCHANGED push
       ELSE /\ push' = [push EXCEPT ![k].buf = <<HeaderItem(header[k])>>]
            /\ wpc' = [wpc EXCEPT ![k] = "headerWait"]
    /\ UNCHANGED <<legacyVars, routingVars, extVars, inputVars, inboundVars, backendVars, handlerVars, clientVars,
                   transportVars, tap, spawned, wsrc, literal, header, logReq, sink,
                   sinkRecv, warnings>>

WriterHeaderWait(k) ==
    /\ wpc[k] = "headerWait"
    /\ push[k].buf = <<>> \/ push[k].rclosed
    /\ push' = [push EXCEPT ![k].buf = <<>>]
    /\ wpc' = [wpc EXCEPT ![k] = "read"]
    /\ UNCHANGED <<legacyVars, routingVars, extVars, inputVars, inboundVars, backendVars, handlerVars, clientVars,
                   transportVars, tap, spawned, wsrc, literal, header, logReq, sink,
                   sinkRecv, warnings>>

\* reader == nil: no body to stream.
WriterNoBody(k) ==
    /\ wpc[k] = "read"
    /\ wsrc[k] = "nil"
    /\ WriterEnds(k)
    /\ UNCHANGED <<legacyVars, routingVars, extVars, inputVars, inboundVars, backendVars, handlerVars, clientVars,
                   transportVars, tap, spawned, wsrc, literal, header, logReq, sink,
                   sinkRecv, warnings>>

\* io.Copy(pipeWriter, logPipeReader): Read takes the chunk parked in the
\* tap, or sees the end of stream once the write end is closed.
WriterReadTap(k) ==
    /\ wpc[k] = "read"
    /\ wsrc[k] = "tap"
    /\ IF tap[k].buf # <<>>
       THEN /\ tap' = [tap EXCEPT ![k].buf = <<>>]
            /\ WriterWrites(k, tap[k].buf)
       ELSE /\ tap[k].wclosed
            /\ WriterEnds(k)
            /\ UNCHANGED <<tap, warnings>>
    /\ UNCHANGED <<legacyVars, routingVars, extVars, inputVars, inboundVars, backendVars, handlerVars, clientVars,
                   transportVars, spawned, wsrc, literal, header, logReq, sink, sinkRecv>>

\* io.Copy(pipeWriter, r.Body) on the unmatched path: the logger reads the
\* inbound body itself; a Read after the server closed the body fails.
WriterReadBody(k) ==
    /\ wpc[k] = "read"
    /\ wsrc[k] = "body"
    /\ IF inboundClosed
       THEN /\ WriterEnds(k)
            /\ Warn("Error streaming data", <<k>>)
            /\ UNCHANGED <<inbound, reqRead>>
       ELSE IF inbound # <<>>
       THEN /\ inbound' = Tail(inbound)
            /\ reqRead' = Append(reqRead, Head(inbound))
            /\ WriterWrites(k, <<Head(inbound)>>)
       ELSE /\ WriterEnds(k)
            /\ UNCHANGED <<inbound, reqRead, warnings>>
    /\ UNCHANGED <<legacyVars, routingVars, extVars, inputVars, inboundClosed, backendVars, handlerVars,
                   clientVars, transportVars, tap, spawned, wsrc, literal,
                   header, logReq, sink, sinkRecv>>

\* io.Copy(pipeWriter, strings.NewReader(responseBody)).
WriterReadLiteral(k) ==
    /\ wpc[k] = "read"
    /\ wsrc[k] = "literal"
    /\ IF literal[k] # <<>>
       THEN /\ literal' = [literal EXCEPT ![k] = <<>>]
            /\ WriterWrites(k, literal[k])
       ELSE /\ WriterEnds(k)
            /\ UNCHANGED <<literal, warnings>>
    /\ UNCHANGED <<legacyVars, routingVars, extVars, inputVars, inboundVars, backendVars, handlerVars, clientVars,
                   transportVars, tap, spawned, wsrc, header, logReq, sink, sinkRecv>>

\* pipeWriter.Write returns: the chunk was read, or the read end was closed
\* under it and io.Copy ends with the error.
WriterWait(k) ==
    /\ wpc[k] = "wait"
    /\ IF push[k].buf = <<>>
       THEN /\ wpc' = [wpc EXCEPT ![k] = "read"]
            /\ UNCHANGED <<push, warnings>>
       ELSE /\ push[k].rclosed
            /\ WriterEnds(k)
            /\ Warn("Error streaming data", <<k>>)
    /\ UNCHANGED <<legacyVars, routingVars, extVars, inputVars, inboundVars, backendVars, handlerVars, clientVars,
                   transportVars, tap, spawned, wsrc, literal, header, logReq, sink,
                   sinkRecv>>

(***************************************************************************)
(* streamToLoggingServer: loggingClient.Do(PUT) and the logging server     *)
(***************************************************************************)
\* The PUT body is read from pipeReader and reaches the logging server.
SinkReads(k) ==
    /\ sink[k] = "open"
    /\ push[k].buf # <<>>
    /\ sinkRecv' = [sinkRecv EXCEPT ![k] = Append(@, push[k].buf[1])]
    /\ push' = [push EXCEPT ![k].buf = <<>>]
    /\ UNCHANGED <<legacyVars, routingVars, extVars, inputVars, inboundVars, backendVars, handlerVars, clientVars,
                   transportVars, tap, spawned, wpc, wsrc, literal, header, logReq, sink,
                   warnings>>

\* The logging server answers and Do returns: at the end of the PUT body, or
\* at once when handleLogRequest rejects the request, and then the transport
\* closes pipeReader. A status other than 200 or 201 is logged.
SinkAnswers(k) ==
    /\ sink[k] = "open"
    /\ \E status \in handleLogRequest(logReq[k]) :
         LET rejected == status \in {StatusMethodNotAllowed, StatusBadRequest}
         IN  /\ rejected \/ (push[k].buf = <<>> /\ push[k].wclosed)
             /\ sink' = [sink EXCEPT ![k] = IF rejected THEN "rejected" ELSE "done"]
             /\ push' = IF rejected
                        THEN [push EXCEPT ![k].rclosed = TRUE]
                        ELSE push
             /\ IF status # StatusOK /\ status # StatusCreated
                THEN Warn("Logging server returned", <<k>>)
                ELSE UNCHANGED warnings
    /\ UNCHANGED <<legacyVars, routingVars, extVars, inputVars, inboundVars, backendVars, handlerVars, clientVars,
                   transportVars, tap, spawned, wpc, wsrc, literal, header, logReq,
                   sinkRecv>>

\* The logging server stops reading.
SinkStalls(k) ==
    /\ sink[k] = "open"
    /\ sink' = [sink EXCEPT ![k] = "stalled"]
    /\ UNCHANGED <<legacyVars, routingVars, extVars, inputVars, inboundVars, backendVars, handlerVars, clientVars,
                   transportVars, tap, push, spawned, wpc, wsrc, literal, header, logReq,
                   sinkRecv, warnings>>

\* loggingClient.Do returns an error and the transport closes pipeReader.
DoLogFails(k, how) ==
    /\ sink' = [sink EXCEPT ![k] = how]
    /\ push' = [push EXCEPT ![k].rclosed = TRUE]
    /\ Warn("Error sending log", <<k>>)
    /\ UNCHANGED <<legacyVars, routingVars, extVars, inputVars, inboundVars, backendVars, handlerVars, clientVars,
                   transportVars, tap, spawned, wpc, wsrc, literal, header, logReq,
                   sinkRecv>>

\* http.Client{Timeout: 30 * time.Second} of the logging client expires.
SinkTimesOut(k) ==
    /\ sink[k] = "stalled"
    /\ DoLogFails(k, "timedOut")

\* Logging server unreachable, or a transport error in the middle of the PUT.
SinkFails(k) ==
    /\ sink[k] = "open"
    /\ DoLogFails(k, "failed")

(***************************************************************************)
(* the specifications                                                      *)
(***************************************************************************)
Handler ==
    \/ HandleNotFound
    \/ LogUnknownRouteRequest
    \/ LogUnknownRouteResponse
    \/ LogUnknownRouteWrite
    \/ HandleInvalidDestination
    \/ HandleMatched
    \/ WriteHeaders
    \/ CopyRead
    \/ CopyWrite
    \/ CopyTap
    \/ ProxyError

Transport ==
    \/ TransportRead
    \/ TransportTee

Writer(k) ==
    \/ WriterHeader(k)
    \/ WriterHeaderWait(k)
    \/ WriterNoBody(k)
    \/ WriterReadTap(k)
    \/ WriterReadBody(k)
    \/ WriterReadLiteral(k)
    \/ WriterWait(k)

Next ==
    \/ Handler
    \/ Transport
    \/ DoReturns
    \/ DoFails
    \/ CopyReadFails
    \/ ClientDisconnects
    \/ \E k \in Kinds : Writer(k)
    \/ \E k \in Kinds : SinkReads(k)
    \/ \E k \in Kinds : SinkAnswers(k)
    \/ \E k \in Kinds : SinkStalls(k)
    \/ \E k \in Kinds : SinkTimesOut(k)
    \/ \E k \in Kinds : SinkFails(k)

Spec == Init /\ [][Next]_vars

\* Goroutines that can run do run, the backend answers a request it has
\* received, the logging server that is reading goes on reading, and a
\* stalled push ends with the logging client's timeout.
Fairness ==
    /\ WF_vars(Handler)
    /\ WF_vars(Transport)
    /\ WF_vars(DoReturns)
    /\ \A k \in Kinds : WF_vars(Writer(k))
    /\ \A k \in Kinds : WF_vars(SinkReads(k))
    /\ \A k \in Kinds : WF_vars(SinkAnswers(k))
    /\ \A k \in Kinds : WF_vars(SinkTimesOut(k))

FairSpec == Spec /\ Fairness

(***************************************************************************)
(* src/server.go: requests and responses with Content-Encoding             *)
(***************************************************************************)
\* gzip.NewWriter of the client or of the backend, on one chunk.
Gzip(c) == "gzip(" \o c \o ")"

\* The headers of a request or a response with a gzip body.
GzipHeaders == PlainHeaders \cup { <<"Content-Encoding", "gzip">> }

\* The body as it is on the wire under the headers h.
Encoded(h, body) ==
    IF <<"Content-Encoding", "gzip">> \in h
    THEN [i \in DOMAIN body |-> Gzip(body[i])]
    ELSE body

EncodingInit ==
    /\ path \in Paths
    /\ method \in {"POST"}
    \* Config.Logging.Default is read on the unmatched path only; for a
    \* matched path the model keeps it true.
    /\ defaultLogging \in IF \E o \in RouteOrders : findMatchingRoute(o, path).Nil
                          THEN BOOLEAN ELSE {TRUE}
    /\ reqHeaders \in {PlainHeaders, GzipHeaders}
    /\ respHeaders = reqHeaders
    /\ inbound \in { Encoded(reqHeaders, b) : b \in {<<>>, <<ReqChunkNames[1]>>} }
    /\ bodyNil \in IF inbound = <<>> THEN BOOLEAN ELSE {FALSE}
    /\ reqRead = <<>>
    /\ inboundClosed = FALSE
    /\ upstream \in { Encoded(respHeaders, b) : b \in {<<>>, <<RespChunkNames[1]>>} }
    /\ upstreamStatus \in UpstreamStatuses
    /\ respRead = <<>>
    /\ backendRecv = <<>>
    /\ hpc = "start"
    /\ requestID \in RequestIDs
    /\ route = NoRoute
    /\ shouldLog = FALSE
    /\ targetURL = [Host |-> "", Path |-> <<>>]
    /\ doAttempts = 0
    /\ dispatchFailed = FALSE
    /\ gotResponse = FALSE
    /\ err = <<>>
    /\ held = <<>>
    /\ clientStatus = 0
    /\ clientRecv = <<>>
    /\ clientGone = FALSE
    /\ tpc = "idle"
    /\ tchunk = ""
    /\ tap = [k \in Kinds |-> NewPipe]
    /\ push = [k \in Kinds |-> NewPipe]
    /\ spawned = [k \in Kinds |-> 0]
    /\ wpc = [k \in Kinds |-> "none"]
    /\ wsrc = [k \in Kinds |-> "nil"]
    /\ literal = [k \in Kinds |-> <<>>]
    /\ header = [k \in Kinds |-> NoHeader]
    /\ logReq = [k \in Kinds |-> NoLogReq]
    /\ sink = [k \in Kinds |-> "none"]
    /\ sinkRecv = [k \in Kinds |-> <<>>]
    /\ warnings = {}
    /\ lpc = "off"
    /\ respContentType = <<>>
    /\ respTransferEncoding = ""
    /\ requestBody = <<>>
    /\ buffer = <<>>
    /\ logged = FALSE
    /\ pendingLog = <<>>
    /\ files = <<>>
    /\ rpc = "off"
    /\ config = {}
    /\ routeTable = <<>>
    /\ rawQuery = <<>>
    /\ target = <<>>
    /\ mux = {}
    /\ ConcOff
    /\ SinkOff
    /\ DecodeOff
    /\ FileOff
    /\ StreamOff
    /\ LogServerOff

EncodingSpec == EncodingInit /\ [][Next]_vars

(***************************************************************************)
(* src/main.go: httputil.ReverseProxy with LoggingTransport                *)
(***************************************************************************)
\* The variables of Spec that the buffering transport does not use.
duplexVars == <<path, method, defaultLogging, hpc, requestID, route, shouldLog,
                targetURL, doAttempts, err, clientGone, transportVars, logVars,
                warnings>>

\* The Content-Type values the backend answers with.
ContentTypes ==
    { <<"application/json">>,
      <<"text/event-stream", "; charset=utf-8">>,
      <<"application/stream">> }

TransferEncodings == {"", "chunked"}

isStreamingResponse(contentType, transferEncoding) ==
    \/ Contains(contentType, "text/event-stream")
    \/ Contains(contentType, "application/stream")
    \/ transferEncoding = "chunked"

\* One log entry: what logRequestResponse or StreamingLogger.Read saves.
LogEntry(req, resp, streaming) ==
    [request |-> req, response |-> resp, streaming |-> streaming]

LegacyInit ==
    /\ path = <<"/", "a", "/", "x">>
    /\ method = "POST"
    /\ defaultLogging = TRUE
    /\ inbound \in ReqBodies
    /\ bodyNil \in IF inbound = <<>> THEN BOOLEAN ELSE {FALSE}
    /\ reqRead = <<>>
    /\ inboundClosed = FALSE
    /\ upstream \in RespBodies
    /\ upstreamStatus \in UpstreamStatuses
    /\ respRead = <<>>
    /\ backendRecv = <<>>
    /\ hpc = "off"
    /\ requestID = ""
    /\ route = NoRoute
    /\ shouldLog = FALSE
    /\ targetURL = [Host |-> "", Path |-> <<>>]
    /\ doAttempts = 0
    /\ dispatchFailed = FALSE
    /\ gotResponse = FALSE
    /\ err = <<>>
    /\ held = <<>>
    /\ clientStatus = 0
    /\ clientRecv = <<>>
    /\ clientGone = FALSE
    /\ tpc = "idle"
    /\ tchunk = ""
    /\ tap = [k \in Kinds |-> NewPipe]
    /\ push = [k \in Kinds |-> NewPipe]
    /\ spawned = [k \in Kinds |-> 0]
    /\ wpc = [k \in Kinds |-> "none"]
    /\ wsrc = [k \in Kinds |-> "nil"]
    /\ literal = [k \in Kinds |-> <<>>]
    /\ header = [k \in Kinds |-> NoHeader]
    /\ logReq = [k \in Kinds |-> NoLogReq]
    /\ sink = [k \in Kinds |-> "none"]
    /\ sinkRecv = [k \in Kinds |-> <<>>]
    /\ warnings = {}
    /\ lpc = "readRequest"
    /\ respContentType \in ContentTypes
    /\ respTransferEncoding \in TransferEncodings
    /\ requestBody = <<>>
    /\ buffer = <<>>
    /\ logged = FALSE
    /\ pendingLog = <<>>
    /\ files = <<>>
    /\ rpc = "off"
    /\ config = {}
    /\ routeTable = <<>>
    /\ rawQuery = <<>>
    /\ target = <<>>
    /\ mux = {}
    /\ ExtOff

\* RoundTrip: requestBody, _ = io.ReadAll(req.Body), one Read at a time.
RoundTripReadRequest ==
    /\ lpc = "readRequest"
    /\ IF ~bodyNil /\ inbound # <<>>
       THEN /\ inbound' = Tail(inbound)
            /\ reqRead' = Append(reqRead, Head(inbound))
            /\ requestBody' = Append(requestBody, Head(inbound))
            /\ UNCHANGED lpc
       ELSE /\ lpc' = "roundTrip"
            /\ UNCHANGED <<inbound, reqRead, requestBody>>
    /\ UNCHANGED <<duplexVars, routingVars, extVars, bodyNil, upstreamStatus, inboundClosed, backendVars,
                   dispatchFailed, gotResponse, held, clientStatus, clientRecv,
                   respContentType, respTransferEncoding, buffer, logged,
                   pendingLog, files>>

\* RoundTrip: t.Transport.RoundTrip(req) sends the buffered body and returns
\* the response; a streaming response is wrapped in a StreamingLogger and
\* returned, any other is read first.
RoundTripReturns ==
    /\ lpc = "roundTrip"
    /\ backendRecv' = requestBody
    /\ inboundClosed' = TRUE
    /\ gotResponse' = TRUE
    /\ lpc' = IF isStreamingResponse(respContentType, respTransferEncoding)
              THEN "headers"
              ELSE "readResponse"
    /\ UNCHANGED <<duplexVars, routingVars, extVars, bodyNil, upstreamStatus, inbound, reqRead, upstream,
                   respRead, dispatchFailed, held, clientStatus, clientRecv,
                   respContentType, respTransferEncoding, requestBody, buffer,
                   logged, pendingLog, files>>

\* RoundTrip: t.Transport.RoundTrip(req) returns an error, which RoundTrip
\* returns; ReverseProxy answers 502.
RoundTripFails ==
    /\ lpc = "roundTrip"
    /\ inboundClosed' = TRUE
    /\ dispatchFailed' = TRUE
    /\ clientStatus' = StatusBadGateway
    /\ lpc' = "done"
    /\ UNCHANGED <<duplexVars, routingVars, extVars, bodyNil, upstreamStatus, inbound, reqRead, backendVars,
                   gotResponse, held, clientRecv, respContentType,
                   respTransferEncoding, requestBody, buffer, logged,
                   pendingLog, files>>

\* RoundTrip, !isStreaming: responseBody, _ = io.ReadAll(resp.Body), one
\* Read at a time; at the end `go t.logRequestResponse` and return resp,
\* whose body is bytes.NewReader(responseBody).
RoundTripReadResponse ==
    /\ lpc = "readResponse"
    /\ IF upstream # <<>>
       THEN /\ upstream' = Tail(upstream)
            /\ respRead' = Append(respRead, Head(upstream))
            /\ held' = Append(held, Head(upstream))
            /\ UNCHANGED <<lpc, pendingLog>>
       ELSE /\ pendingLog' = <<LogEntry(requestBody, held, FALSE)>>
            /\ lpc' = "headers"
            /\ UNCHANGED <<upstream, respRead, held>>
    /\ UNCHANGED <<duplexVars, routingVars, extVars, bodyNil, upstreamStatus, inboundVars, backendRecv,
                   dispatchFailed, gotResponse, clientStatus, clientRecv,
                   respContentType, respTransferEncoding, requestBody, buffer,
                   logged, files>>

\* logRequestResponse: the goroutine writes the -request.bin and
\* -response.bin files.
logRequestResponse ==
    /\ pendingLog # <<>>
    /\ files' = files \o pendingLog
    /\ pendingLog' = <<>>
    /\ UNCHANGED <<duplexVars, routingVars, extVars, bodyNil, upstreamStatus, inboundVars, backendVars,
                   dispatchFailed, gotResponse, held, clientStatus, clientRecv,
                   lpc, respContentType, respTransferEncoding, requestBody,
                   buffer, logged>>

\* ReverseProxy.ServeHTTP: the response headers and status go to the client.
ServeHTTPWriteHeader ==
    /\ lpc = "headers"
    /\ clientStatus' = upstreamStatus
    /\ lpc' = "copyRead"
    /\ UNCHANGED <<duplexVars, routingVars, extVars, bodyNil, upstreamStatus, inboundVars, backendVars,
                   dispatchFailed, gotResponse, held, clientRecv,
                   respContentType, respTransferEncoding, requestBody, buffer,
                   logged, pendingLog, files>>

\* StreamingLogger.Read: a chunk is copied into buffer; at io.EOF the
\* request and the buffered response are saved, once.
StreamingLoggerRead ==
    IF upstream # <<>>
    THEN /\ upstream' = Tail(upstream)
         /\ respRead' = Append(respRead, Head(upstream))
         /\ held' = Append(held, Head(upstream))
         /\ buffer' = Append(buffer, Head(upstream))
         /\ lpc' = "copyWrite"
         /\ UNCHANGED <<logged, files>>
    ELSE /\ IF ~logged
            THEN /\ logged' = TRUE
                 /\ files' = Append(files, LogEntry(requestBody, buffer, TRUE))
            ELSE UNCHANGED <<logged, files>>
         /\ lpc' = "done"
         /\ UNCHANGED <<upstream, respRead, held, buffer>>

\* ReverseProxy.ServeHTTP copies resp.Body: a Read of the StreamingLogger, or
\* of the bytes.Reader that holds the whole body already read.
ServeHTTPCopyRead ==
    /\ lpc = "copyRead"
    /\ IF isStreamingResponse(respContentType, respTransferEncoding)
       THEN StreamingLoggerRead
       ELSE /\ lpc' = IF held # <<>> THEN "copyWrite" ELSE "done"
            /\ UNCHANGED <<upstream, respRead, held, buffer, logged, files>>
    /\ UNCHANGED <<duplexVars, routingVars, extVars, bodyNil, upstreamStatus, inboundVars, backendRecv,
                   dispatchFailed, gotResponse, clientStatus, clientRecv,
                   respContentType, respTransferEncoding, requestBody,
                   pendingLog>>

\* ReverseProxy.ServeHTTP copies resp.Body: what was read is written to w.
ServeHTTPCopyWrite ==
    /\ lpc = "copyWrite"
    /\ clientRecv' = clientRecv \o held
    /\ held' = <<>>
    /\ lpc' = "copyRead"
    /\ UNCHANGED <<duplexVars, routingVars, extVars, bodyNil, upstreamStatus, inboundVars, backendVars,
                   dispatchFailed, gotResponse, clientStatus,
                   respContentType, respTransferEncoding, requestBody, buffer,
                   logged, pendingLog, files>>

LegacyNext ==
    \/ RoundTripReadRequest
    \/ RoundTripReturns
    \/ RoundTripFails
    \/ RoundTripReadResponse
    \/ logRequestResponse
    \/ ServeHTTPWriteHeader
    \/ ServeHTTPCopyRead
    \/ ServeHTTPCopyWrite

LegacySpec == LegacyInit /\ [][LegacyNext]_vars

(***************************************************************************)
(* src/server.go: NewProxyServer and the routing of handleRequest, over    *)
(* route tables drawn from a pool                                          *)
(***************************************************************************)
\* What a request that is only routed leaves untouched: no body is read, no
\* backend is called, nothing is logged.
Quiet ==
    /\ method = "POST"
    /\ upstreamStatus = StatusOK
    /\ reqRead = <<>>
    /\ inboundClosed = FALSE
    /\ upstream = <<>>
    /\ respRead = <<>>
    /\ backendRecv = <<>>
    /\ requestID \in RequestIDs
    /\ route = NoRoute
    /\ shouldLog = FALSE
    /\ targetURL = [Host |-> "", Path |-> <<>>]
    /\ doAttempts = 0
    /\ dispatchFailed = FALSE
    /\ gotResponse = FALSE
    /\ err = <<>>
    /\ held = <<>>
    /\ clientStatus = 0
    /\ clientRecv = <<>>
    /\ clientGone = FALSE
    /\ tpc = "idle"
    /\ tchunk = ""
    /\ tap = [k \in Kinds |-> NewPipe]
    /\ push = [k \in Kinds |-> NewPipe]
    /\ spawned = [k \in Kinds |-> 0]
    /\ wpc = [k \in Kinds |-> "none"]
    /\ wsrc = [k \in Kinds |-> "nil"]
    /\ literal = [k \in Kinds |-> <<>>]
    /\ header = [k \in Kinds |-> NoHeader]
    /\ logReq = [k \in Kinds |-> NoLogReq]
    /\ sink = [k \in Kinds |-> "none"]
    /\ sinkRecv = [k \in Kinds |-> <<>>]
    /\ warnings = {}
    /\ lpc = "off"
    /\ respContentType = <<>>
    /\ respTransferEncoding = ""
    /\ requestBody = <<>>
    /\ buffer = <<>>
    /\ logged = FALSE
    /\ pendingLog = <<>>
    /\ files = <<>>

\* The routes a configuration file may hold, by their key in `routes:`.
\* "api" and "api2" have the same source.
RoutePool ==
    [root  |-> Route(<<"/">>, TRUE, "root", <<"/">>, "false"),
     api   |-> Route(<<"/", "api", "/">>, TRUE, "x", <<"/", "y", "/">>, "false"),
     api2  |-> Route(<<"/", "api", "/">>, TRUE, "other", <<"/", "m">>, "false"),
     exact |-> Route(<<"/", "api">>, TRUE, "exact", <<>>, "false"),
     mock  |-> Route(<<"/", "api", "/", "mock">>, TRUE, "mock", <<>>, "false")]

RouteNames == DOMAIN RoutePool

\* The inbound paths and query strings of the routing model.
RoutePaths ==
    { <<"/">>,
      <<"/", "api">>,
      <<"/", "api", "/">>,
      <<"/", "api", "/", "v1">>,
      <<"/", "api", "/", "mock">>,
      <<"/", "api", "/", "mock", "/", "sub">>,
      <<"/", "api", "foo">>,
      <<"/", "some", "/", "deep">> }

Queries == { <<>>, <<"q=1">> }

\* Every order in which `range` may visit the keys of a map.
Orders(S) ==
    { o \in [1..Cardinality(S) -> S] :
        \A i, j \in 1..Cardinality(S) : o[i] = o[j] => i = j }

\* The loop of NewProxyServer over config.Routes in iteration order:
\* server.Routes[route.Source] = &routeCopy.
RECURSIVE LoadRoutes(_, _)
LoadRoutes(order, table) ==
    IF order = <<>> THEN table
    ELSE LET r == RoutePool[Head(order)]
         IN  LoadRoutes(Tail(order),
                        [src \in DOMAIN table \cup {r.Source} |->
                            IF src = r.Source THEN r ELSE table[src]])

\* url.URL.String(): scheme and host, the path, and "?" with the query only
\* when RawQuery is not empty.
URLString(u) ==
    <<"http://", u.Host>> \o u.Path
        \o (IF u.RawQuery # <<>> THEN <<"?">> \o u.RawQuery ELSE <<>>)

\* handleRequest without targetURL.RawQuery = r.URL.RawQuery.
BuildTargetURL_NoQuery(r, p, q) ==
    [Host |-> r.Destination.Host,
     Path |-> transformPath(p, r.Source, r.Destination),
     RawQuery |-> <<>>]

\* handleRequest: the parsed destination with the transformed path and the
\* inbound query.
BuildTargetURL(r, p, q) ==
    [Host |-> r.Destination.Host,
     Path |-> transformPath(p, r.Source, r.Destination),
     RawQuery |-> q]

RouteInit ==
    /\ Quiet
    /\ path \in RoutePaths
    /\ rawQuery \in Queries
    /\ config \in SUBSET RouteNames
    /\ defaultLogging = FALSE
    /\ bodyNil = TRUE
    /\ inbound = <<>>
    /\ hpc = "off"
    /\ rpc = "new"
    /\ routeTable = <<>>
    /\ target = <<>>
    /\ mux = {}
    /\ ExtOff

\* NewProxyServer and Start: the routes map is filled and the server listens.
NewProxyServer ==
    /\ rpc = "new"
    /\ \E order \in Orders(config) :
         routeTable' = LoadRoutes(order, <<>>)
    /\ rpc' = "serving"
    /\ UNCHANGED <<duplexVars, legacyVars, bodyNil, upstreamStatus, inboundVars,
                   backendVars, dispatchFailed, gotResponse, held,
                   clientStatus, clientRecv, extVars, config, rawQuery, target, mux>>

\* handleRequest writing through the *Route it found: the logging decision
\* of the request is stored in the route.
HandleRequestRouting_WritesRoute ==
    /\ rpc = "serving"
    /\ \E order \in Orders(DOMAIN routeTable) :
         LET r == findMatchingRoute([i \in 1..Len(order) |-> routeTable[order[i]]],
                                    path)
         IN  /\ route' = r
             /\ IF r.Nil
                THEN /\ rpc' = "notFound"
                     /\ UNCHANGED <<target, routeTable>>
                ELSE /\ routeTable' = [routeTable EXCEPT ![r.Source].Flag = "true"]
                     /\ IF ~r.Destination.ParseOK
                        THEN /\ rpc' = "invalid"
                             /\ UNCHANGED target
                        ELSE /\ rpc' = "proxied"
                             /\ target' = URLString(BuildTargetURL(r, path, rawQuery))
    /\ UNCHANGED <<legacyVars, inputVars, inboundVars, backendVars, hpc,
                   requestID, shouldLog, targetURL, doAttempts, dispatchFailed,
                   gotResponse, err, held, clientVars, transportVars, logVars,
                   warnings, extVars, config, rawQuery, mux>>

\* handleRequest up to the call of proxyWithDuplex: the route is looked up,
\* and for a match the target URL is built.
HandleRequestRouting ==
    /\ rpc = "serving"
    /\ \E order \in Orders(DOMAIN routeTable) :
         LET r == findMatchingRoute([i \in 1..Len(order) |-> routeTable[order[i]]],
                                    path)
         IN  /\ route' = r
             /\ IF r.Nil
                THEN /\ rpc' = "notFound"
                     /\ UNCHANGED target
                ELSE IF ~r.Destination.ParseOK
                THEN /\ rpc' = "invalid"
                     /\ UNCHANGED target
                ELSE /\ rpc' = "proxied"
                     /\ target' = URLString(BuildTargetURL(r, path, rawQuery))
    /\ UNCHANGED <<legacyVars, inputVars, inboundVars, backendVars, hpc,
                   requestID, shouldLog, targetURL, doAttempts, dispatchFailed,
                   gotResponse, err, held, clientVars, transportVars, logVars,
                   warnings, extVars, config, routeTable, rawQuery, mux>>

RouteNext ==
    \/ NewProxyServer
    \/ HandleRequestRouting

RouteSpec == RouteInit /\ [][RouteNext]_vars

(***************************************************************************)
(* src/logging.go: the routes registered as http.ServeMux patterns         *)
(***************************************************************************)
\* Config.Routes of the ServeMux version, by their key in `routes:`; the
\* Pattern of a route is held in Source. "api" and "api2" have the same
\* pattern, "wild" and "tail" hold a wildcard, "dollar" ends in {$}.
MuxPool ==
    [root   |-> Route(<<"/">>, TRUE, "root", <<"/">>, "false"),
     api    |-> Route(<<"/", "api", "/">>, TRUE, "x", <<"/", "y", "/">>, "false"),
     api2   |-> Route(<<"/", "api", "/">>, TRUE, "other", <<>>, "false"),
     wild   |-> Route(<<"/", "w", "/", "{id}">>, TRUE, "w", <<>>, "false"),
     tail   |-> Route(<<"/", "f", "/", "{path...}">>, TRUE, "f", <<>>, "false"),
     dollar |-> Route(<<"/", "t", "/", "{$}">>, TRUE, "t", <<"/", "d">>, "false")]

MuxNames == DOMAIN MuxPool

MuxPaths ==
    { <<"/">>,
      <<"/", "api">>,
      <<"/", "api", "/", "v1">>,
      <<"/", "t", "/">>,
      <<"/", "other">> }

\* wildcardRegex `{[a-zA-Z0-9_.]+`, on the tokens of a pattern: "{" followed
\* by a name character, which "{$}" is not.
WildcardTokens == {"{id}", "{path...}"}

wildcardRegexMatchString_Never(pattern) == FALSE

wildcardRegexMatchString(pattern) ==
    \E i \in 1..Len(pattern) : pattern[i] \in WildcardTokens

\* The handler setupPatterns registers when the configuration has no "/".
UnknownHandler == "unknown"

\* The loop of setupPatterns over Config.Routes in iteration order, and the
\* catch-all after it. mux.HandleFunc panics on a pattern that is already
\* registered.
RECURSIVE setupPatternsFrom(_, _, _)
setupPatternsFrom(order, m, registerCatchAll) ==
    IF order = <<>>
    THEN [panic |-> FALSE,
          mux |-> IF registerCatchAll
                  THEN m \cup {[pattern |-> <<"/">>, name |-> UnknownHandler]}
                  ELSE m]
    ELSE LET pattern == MuxPool[Head(order)].Source
             registered == IF HasSuffix(pattern, <<"/">>)
                           THEN pattern \o <<"{path...}">>
                           ELSE pattern
         IN  IF wildcardRegexMatchString(pattern)
             THEN [panic |-> TRUE, mux |-> m]
             ELSE IF \E e \in m : e.pattern = registered
             THEN [panic |-> TRUE, mux |-> m]
             ELSE setupPatternsFrom(Tail(order),
                                    m \cup {[pattern |-> registered, name |-> Head(order)]},
                                    registerCatchAll /\ pattern # <<"/">>)

setupPatterns(order) == setupPatternsFrom(order, {}, TRUE)

\* http.ServeMux: a pattern that ends in "/" or in a {name...} wildcard
\* matches every path below its fixed part, one that ends in {$} only the
\* fixed part, any other only itself.
MuxLast(pattern) == pattern[Len(pattern)]

MuxIsMulti(pattern) == MuxLast(pattern) \in {"/", "{path...}"}

MuxBase(pattern) ==
    IF MuxLast(pattern) \in {"{path...}", "{$}"}
    THEN SubSeq(pattern, 1, Len(pattern) - 1)
    ELSE pattern

MuxPatternMatches(pattern, p) ==
    IF MuxIsMulti(pattern) THEN HasPrefix(p, MuxBase(pattern)) ELSE p = MuxBase(pattern)

\* The more specific pattern wins: an exact one over a prefix, the longer
\* prefix over the shorter.
MuxRank(pattern, p) ==
    IF MuxIsMulti(pattern) THEN Len(MuxBase(pattern)) ELSE Len(p) + 1

MuxCandidates(p) == { e \in mux : MuxPatternMatches(e.pattern, p) }

MuxMatch(p) ==
    CHOOSE e \in MuxCandidates(p) :
        \A f \in MuxCandidates(p) : MuxRank(f.pattern, p) <= MuxRank(e.pattern, p)

\* exactMatch of ServeMux: the match is not one of a path below a prefix.
MuxExactMatch(p) ==
    /\ MuxCandidates(p) # {}
    /\ MuxIsMulti(MuxMatch(p).pattern) => p = MuxBase(MuxMatch(p).pattern)

\* ServeMux answers a path without trailing slash with a redirect when only
\* the path with the slash has an exact match.
MuxRedirects(p) ==
    /\ ~MuxExactMatch(p)
    /\ MuxLast(p) # "/"
    /\ MuxExactMatch(p \o <<"/">>)

\* r.PathValue("path")
PathValue(pattern, p) ==
    IF MuxLast(pattern) = "{path...}"
    THEN SubSeq(p, Len(MuxBase(pattern)) + 1, Len(p))
    ELSE <<>>

\* url.JoinPath(route.Destination, path), on the destination's path.
urlJoinPath(destPath, elem) == TrimSuffix(destPath, <<"/">>) \o <<"/">> \o elem

\* handlePatternRequest: destinationUrl, parsed.
destinationUrl(r, pathValue, query) ==
    [Host |-> r.Destination.Host,
     Path |-> IF Len(pathValue) > 0
              THEN urlJoinPath(r.Destination.Path, pathValue)
              ELSE r.Destination.Path,
     RawQuery |-> query]

\* http.Error(w, "custom 404 page", ...) of handleUnknownRoute.
NotFoundText == <<"custom 404 page">>

MuxInit ==
    /\ Quiet
    /\ path \in MuxPaths
    /\ rawQuery \in Queries
    /\ config \in SUBSET MuxNames
    /\ defaultLogging \in BOOLEAN
    /\ bodyNil = FALSE
    /\ inbound \in {<<>>, <<ReqChunkNames[1]>>}
    /\ hpc = "off"
    /\ rpc = "new"
    /\ routeTable = <<>>
    /\ target = <<>>
    /\ mux = {}
    /\ ExtOff

\* NewProxyServer: setupPatterns registers the routes, or panics.
MuxNewProxyServer ==
    /\ rpc = "new"
    /\ \E order \in Orders(config) :
         LET res == setupPatterns(order)
         IN  IF res.panic
             THEN /\ rpc' = "panicked"
                  /\ UNCHANGED mux
             ELSE /\ rpc' = "constructed"
                  /\ mux' = res.mux
    /\ UNCHANGED <<duplexVars, legacyVars, bodyNil, upstreamStatus, inboundVars,
                   backendVars, dispatchFailed, gotResponse, held,
                   clientStatus, clientRecv, extVars, config, routeTable, rawQuery, target>>

\* Start: server.ListenAndServe().
MuxStart ==
    /\ rpc = "constructed"
    /\ rpc' = "serving"
    /\ UNCHANGED <<duplexVars, legacyVars, bodyNil, upstreamStatus, inboundVars,
                   backendVars, dispatchFailed, gotResponse, held,
                   clientStatus, clientRecv, extVars, config, routeTable, rawQuery, target,
                   mux>>

\* The mux answers with a redirect to the path with a trailing slash.
MuxRedirect ==
    /\ rpc = "serving"
    /\ MuxRedirects(path)
    /\ rpc' = "redirected"
    /\ Return
    /\ UNCHANGED <<legacyVars, inputVars, inbound, reqRead, backendVars,
                   requestID, route, shouldLog, targetURL, doAttempts,
                   dispatchFailed, gotResponse, err, held, clientVars,
                   transportVars, logVars, warnings, extVars, config, routeTable,
                   rawQuery, target, mux>>

\* The mux calls the handler of a configured route: handlePatternRequest up
\* to the call of proxyWithDuplex.
handlePatternRequest ==
    /\ rpc = "serving"
    /\ ~MuxRedirects(path)
    /\ MuxCandidates(path) # {}
    /\ MuxMatch(path).name # UnknownHandler
    /\ LET e == MuxMatch(path)
           r == MuxPool[e.name]
       IN  /\ route' = r
           /\ shouldLog' = r.Logging
           /\ IF ~r.Destination.ParseOK
              THEN /\ HttpError(<<"Invalid destination URL">>, StatusInternalServerError)
                   /\ rpc' = "invalid"
                   /\ Return
                   /\ UNCHANGED target
              ELSE /\ target' = URLString(destinationUrl(r, PathValue(e.pattern, path),
                                                         rawQuery))
                   /\ rpc' = "proxied"
                   /\ hpc' = "duplex"
                   /\ UNCHANGED <<clientStatus, clientRecv, inboundClosed>>
    /\ UNCHANGED <<legacyVars, inputVars, inbound, reqRead, backendVars,
                   requestID, targetURL, doAttempts, dispatchFailed, gotResponse,
                   err, held, clientGone, transportVars, logVars, warnings,
                   extVars, config, routeTable, rawQuery, mux>>

\* The mux calls handleUnknownRoute, Config.Logging.Default is false.
handleUnknownRoute ==
    /\ rpc = "serving"
    /\ ~MuxRedirects(path)
    /\ MuxCandidates(path) # {}
    /\ MuxMatch(path).name = UnknownHandler
    /\ ~defaultLogging
    /\ HttpError(NotFoundText, StatusNotFound)
    /\ rpc' = "unknown"
    /\ Return
    /\ UNCHANGED <<legacyVars, inputVars, inbound, reqRead, backendVars,
                   requestID, route, shouldLog, targetURL, doAttempts,
                   dispatchFailed, gotResponse, err, held, clientGone,
                   transportVars, logVars, warnings, extVars, config, routeTable,
                   rawQuery, target, mux>>

\* The mux calls handleUnknownRoute, Config.Logging.Default is true:
\* logUnknownRoute up to the first `go s.streamToLoggingServer`.
handleUnknownRouteLogged ==
    /\ rpc = "serving"
    /\ ~MuxRedirects(path)
    /\ MuxCandidates(path) # {}
    /\ MuxMatch(path).name = UnknownHandler
    /\ defaultLogging
    /\ Spawn("request", "body",
             RequestHeader(method, path, RequestHost, ProxyPath(path), reqHeaders),
             <<>>, tap["request"])
    /\ rpc' = "unknown"
    /\ hpc' = "unknownHeader"
    /\ UNCHANGED <<legacyVars, inputVars, inboundVars, backendVars, requestID,
                   route, shouldLog, targetURL, doAttempts, dispatchFailed,
                   gotResponse, err, held, clientVars, transportVars, warnings,
                   extVars, config, routeTable, rawQuery, target, mux>>

\* The goroutine of streamToLoggingServer on the unmatched path.
UnknownWriter(k) ==
    \/ WriterHeader(k)
    \/ WriterHeaderWait(k)
    \/ WriterReadBody(k)
    \/ WriterReadLiteral(k)
    \/ WriterWait(k)

MuxNext ==
    \/ MuxNewProxyServer
    \/ MuxStart
    \/ MuxRedirect
    \/ handlePatternRequest
    \/ handleUnknownRoute
    \/ handleUnknownRouteLogged
    \/ LogUnknownRouteResponse
    \/ LogUnknownRouteWrite
    \/ \E k \in Kinds : UnknownWriter(k)
    \/ \E k \in Kinds : SinkReads(k)
    \/ \E k \in Kinds : SinkAnswers(k)
    \/ \E k \in Kinds : SinkStalls(k)
    \/ \E k \in Kinds : SinkTimesOut(k)
    \/ \E k \in Kinds : SinkFails(k)

MuxSpec == MuxInit /\ [][MuxNext]_vars

(***************************************************************************)
(* src/server.go: several requests handled at the same time                *)
(***************************************************************************)
\* net/http runs handleRequest in one goroutine per request. requestID, the
\* pipes and the bodies are locals of each call; the calls share s.Config and
\* s.loggingClient, which they only read.
NumRequests == 2

ConcRequests == 1..NumRequests

\* The values uuid.New().String() can return.
UUIDNames == <<"uuid-1", "uuid-2", "uuid-3", "uuid-4">>
UUIDs == { UUIDNames[i] : i \in 1..NumRequests }

\* uuid.New that returns the same value on every call.
uuidNew_Fixed(used) == { UUIDNames[1] }

\* uuid.New(): a random value, not one that was returned before.
uuidNew(used) == UUIDs \ used

\* What handler r writes into the log message of its stream k: the header
\* block, then the chunks of its own body, each marked with its origin.
ConcHeader(r, k) == [owner |-> r, kind |-> k, part |-> "header"]
ConcChunk(r, k)  == [owner |-> r, kind |-> k, part |-> "body"]

\* The URL paths the logging server can be asked for.
PushPaths == { <<a, b>> : a, b \in UUIDs \cup Kinds }

\* The variables of the models of a single request.
singleVars == <<inputVars, inboundVars, backendVars, handlerVars, clientVars,
                transportVars, logVars, warnings, legacyVars, routingVars, hdrVars,
                sinkVars, decodeVars,
              logServerVars,
              streamVars,
              fileVars>>

ConcInit ==
    /\ Quiet
    /\ path = <<"/", "a", "/", "x">>
    /\ defaultLogging = TRUE
    /\ bodyNil = FALSE
    /\ inbound = <<>>
    /\ hpc = "off"
    /\ rpc = "off"
    /\ config = {}
    /\ routeTable = <<>>
    /\ rawQuery = <<>>
    /\ target = <<>>
    /\ mux = {}
    /\ NoEncoding
    /\ SinkOff
    /\ DecodeOff
    /\ FileOff
    /\ StreamOff
    /\ LogServerOff
    /\ cpc = [r \in ConcRequests |-> "start"]
    /\ cid = [r \in ConcRequests |-> ""]
    /\ cinbound = [r \in ConcRequests |-> 1]
    /\ cupstream = [r \in ConcRequests |-> 1]
    /\ cbackend = [r \in ConcRequests |-> <<>>]
    /\ cclient = [r \in ConcRequests |-> <<>>]
    /\ cpush = [r \in ConcRequests |-> [k \in Kinds |-> <<>>]]
    /\ cstore = [u \in PushPaths |-> <<>>]

\* handleRequest of request r up to client.Do: the request ID and the start
\* of the request log.
ConcHandle(r) ==
    /\ cpc[r] = "start"
    /\ \E id \in uuidNew({ cid[q] : q \in ConcRequests }) :
         cid' = [cid EXCEPT ![r] = id]
    /\ cpush' = [cpush EXCEPT ![r]["request"] = Append(@, ConcHeader(r, "request"))]
    /\ cpc' = [cpc EXCEPT ![r] = "do"]
    /\ UNCHANGED <<singleVars, cinbound, cupstream, cbackend, cclient, cstore>>

\* The transport reads a chunk of r's body through the TeeReader: it goes to
\* r's request log and to the backend; at the end of the body the backend
\* answers.
ConcTransportRead(r) ==
    /\ cpc[r] = "do"
    /\ IF cinbound[r] > 0
       THEN /\ cinbound' = [cinbound EXCEPT ![r] = @ - 1]
            /\ cpush' = [cpush EXCEPT ![r]["request"] = Append(@, ConcChunk(r, "request"))]
            /\ cbackend' = [cbackend EXCEPT ![r] = Append(@, ConcChunk(r, "request"))]
            /\ UNCHANGED cpc
       ELSE /\ cpc' = [cpc EXCEPT ![r] = "headers"]
            /\ UNCHANGED <<singleVars, cinbound, cpush, cbackend>>
    /\ UNCHANGED <<singleVars, cid, cupstream, cclient, cstore>>

\* proxyWithDuplex of request r after client.Do: the start of the response
\* log.
ConcWriteHeaders(r) ==
    /\ cpc[r] = "headers"
    /\ cpush' = [cpush EXCEPT ![r]["response"] = Append(@, ConcHeader(r, "response"))]
    /\ cpc' = [cpc EXCEPT ![r] = "copy"]
    /\ UNCHANGED <<singleVars, cid, cinbound, cupstream, cbackend, cclient, cstore>>

\* io.Copy(multiWriter, resp.Body) of request r: a chunk goes to r's client
\* and to r's response log; at the end the handler returns.
ConcCopy(r) ==
    /\ cpc[r] = "copy"
    /\ IF cupstream[r] > 0
       THEN /\ cupstream' = [cupstream EXCEPT ![r] = @ - 1]
            /\ cclient' = [cclient EXCEPT ![r] = Append(@, ConcChunk(r, "response"))]
            /\ cpush' = [cpush EXCEPT ![r]["response"] = Append(@, ConcChunk(r, "response"))]
            /\ UNCHANGED cpc
       ELSE /\ cpc' = [cpc EXCEPT ![r] = "done"]
            /\ UNCHANGED <<singleVars, cupstream, cclient, cpush>>
    /\ UNCHANGED <<singleVars, cid, cinbound, cbackend, cstore>>

\* streamToLoggingServer of request r, stream k: the next part of the
\* message reaches the logging server under the path of logReq.
ConcPush(r, k) ==
    /\ cpush[r][k] # <<>>
    /\ cpush' = [cpush EXCEPT ![r][k] = Tail(@)]
    /\ cstore' = [cstore EXCEPT ![NewLogRequest(cid[r], k).path] =
                                    Append(@, Head(cpush[r][k]))]
    /\ UNCHANGED <<singleVars, cpc, cid, cinbound, cupstream, cbackend, cclient>>

ConcNext ==
    \/ \E r \in ConcRequests : ConcHandle(r)
    \/ \E r \in ConcRequests : ConcTransportRead(r)
    \/ \E r \in ConcRequests : ConcWriteHeaders(r)
    \/ \E r \in ConcRequests : ConcCopy(r)
    \/ \E r \in ConcRequests : \E k \in Kinds : ConcPush(r, k)

ConcSpec == ConcInit /\ [][ConcNext]_vars

(***************************************************************************)
(* src/main.go: a StreamingLogger under any sequence of Read calls         *)
(***************************************************************************)
\* Reads of the StreamingLogger after the first that returned io.EOF.
MaxEOFReads == 2

\* RoundTrip has wrapped resp.Body in a StreamingLogger that holds the
\* request body; the caller of Read is any reader.
StreamInit ==
    /\ path = <<"/", "a", "/", "x">>
    /\ method = "POST"
    /\ defaultLogging = TRUE
    /\ inbound = <<>>
    /\ bodyNil = FALSE
    /\ reqRead = <<>>
    /\ inboundClosed = TRUE
    /\ upstream \in RespBodies
    /\ upstreamStatus \in UpstreamStatuses
    /\ respRead = <<>>
    /\ backendRecv = <<>>
    /\ hpc = "off"
    /\ requestID = ""
    /\ route = NoRoute
    /\ shouldLog = FALSE
    /\ targetURL = [Host |-> "", Path |-> <<>>]
    /\ doAttempts = 0
    /\ dispatchFailed = FALSE
    /\ gotResponse = TRUE
    /\ err = <<>>
    /\ held = <<>>
    /\ clientStatus = 0
    /\ clientRecv = <<>>
    /\ clientGone = FALSE
    /\ tpc = "idle"
    /\ tchunk = ""
    /\ tap = [k \in Kinds |-> NewPipe]
    /\ push = [k \in Kinds |-> NewPipe]
    /\ spawned = [k \in Kinds |-> 0]
    /\ wpc = [k \in Kinds |-> "none"]
    /\ wsrc = [k \in Kinds |-> "nil"]
    /\ literal = [k \in Kinds |-> <<>>]
    /\ header = [k \in Kinds |-> NoHeader]
    /\ logReq = [k \in Kinds |-> NoLogReq]
    /\ sink = [k \in Kinds |-> "none"]
    /\ sinkRecv = [k \in Kinds |-> <<>>]
    /\ warnings = {}
    /\ lpc = "stream"
    /\ respContentType = <<"text/event-stream", "; charset=utf-8">>
    /\ respTransferEncoding = "chunked"
    /\ requestBody \in ReqBodies
    /\ buffer = <<>>
    /\ logged = FALSE
    /\ pendingLog = <<>>
    /\ files = <<>>
    /\ rpc = "off"
    /\ config = {}
    /\ routeTable = <<>>
    /\ rawQuery = <<>>
    /\ target = <<>>
    /\ mux = {}
    /\ ConcOff
    /\ NoEncoding
    /\ SinkOff
    /\ DecodeOff
    /\ LogServerOff
    /\ FileOff
    /\ eofReads = 0
    /\ wrapErr \in BOOLEAN
    /\ eofWithData \in IF upstream = <<>> THEN {FALSE} ELSE BOOLEAN

streamFrame == <<duplexVars, routingVars, concVars, hdrVars, sinkVars,
                 decodeVars, logServerVars, fileVars, bodyNil, upstreamStatus,
                 inboundVars, backendRecv, dispatchFailed, gotResponse,
                 clientStatus, respContentType, respTransferEncoding,
                 requestBody, pendingLog, wrapErr, eofWithData>>

\* The part of StreamingLogger.Read after s.ReadCloser.Read returned: the
\* data is buffered, and at io.EOF the entry is saved unless logged is set.
ReadTail_LogsEveryEOF(data, eof) ==
    /\ buffer' = buffer \o data
    /\ clientRecv' = clientRecv \o data
    /\ IF eof
       THEN /\ logged' = TRUE
            /\ files' = Append(files, LogEntry(requestBody, buffer \o data, TRUE))
            /\ eofReads' = eofReads + 1
       ELSE UNCHANGED <<logged, files, eofReads>>

ReadTail(data, eof) ==
    /\ buffer' = buffer \o data
    /\ clientRecv' = clientRecv \o data
    /\ IF eof
       THEN /\ IF ~logged
               THEN /\ logged' = TRUE
                    /\ files' = Append(files, LogEntry(requestBody, buffer \o data, TRUE))
               ELSE UNCHANGED <<logged, files>>
            /\ eofReads' = eofReads + 1
       ELSE UNCHANGED <<logged, files, eofReads>>

\* StreamingLogger.Read: the wrapped body returns a chunk, or the last chunk
\* together with io.EOF.
StreamReadData ==
    /\ lpc = "stream"
    /\ upstream # <<>>
    /\ upstream' = Tail(upstream)
    /\ respRead' = Append(respRead, Head(upstream))
    /\ ReadTail(<<Head(upstream)>>, Len(upstream) = 1 /\ eofWithData)
    /\ UNCHANGED <<streamFrame, held, lpc>>

\* StreamingLogger.Read: the wrapped body is at its end and returns
\* (0, io.EOF), on this Read and on every later one.
StreamReadEOF ==
    /\ lpc = "stream"
    /\ upstream = <<>>
    /\ eofReads < 1 + MaxEOFReads
    /\ ReadTail(<<>>, TRUE)
    /\ UNCHANGED <<streamFrame, upstream, respRead, held, lpc>>

\* StreamingLogger.Read: the wrapped body returns an error that is not
\* io.EOF; nothing is buffered or saved.
StreamReadFails ==
    /\ lpc = "stream"
    /\ wrapErr
    /\ eofReads = 0
    /\ upstream' = <<>>
    /\ lpc' = "failed"
    /\ UNCHANGED <<streamFrame, respRead, held, buffer, clientRecv, logged,
                   files, eofReads>>

StreamNext ==
    \/ StreamReadData
    \/ StreamReadEOF
    \/ StreamReadFails

StreamSpec == StreamInit /\ [][StreamNext]_vars

(***************************************************************************)
(* src/main.go: generateUniqueFilename and the writers of the binary files *)
(***************************************************************************)
\* Log writers that run at the same time.
NumWriters == 2

\* Highest counter among the files that exist at the start.
MaxCounter == 2

Writers == 1..NumWriters

\* time.Time values: the second of the wall clock and the nanosecond.
Timestamps == [sec : {5, 6}, nsec : {0, 1}]

\* t.Format("2006-01-02_15-04-05").
Format(t) ==
    CASE t.sec = 5 -> "2006-01-02_15-04-05"
      [] t.sec = 6 -> "2006-01-02_15-04-06"

\* fmt.Sprintf("%09d", nanoseconds).
Pad9(n) ==
    CASE n = 0 -> "000000000"
      [] n = 1 -> "000000001"

\* fmt.Sprintf("%s-%09d", baseFormat, nanoseconds).
BaseName(t) == Format(t) \o "-" \o Pad9(t.nsec)

\* testName of generateUniqueFilename for a counter.
TestName(base, counter) ==
    IF counter > 0 THEN base \o "_" \o ToString(counter) ELSE base

RequestFile(name) == name \o "-request.bin"
ResponseFile(name) == name \o "-response.bin"

\* fileExists over the files that exist.
fileExists(filename, existing) == filename \in existing

\* The test of the loop with the response file left out.
NameTaken_RequestOnly(name, existing) == fileExists(RequestFile(name), existing)

\* requestExists || responseExists.
NameTaken(name, existing) ==
    \/ fileExists(RequestFile(name), existing)
    \/ fileExists(ResponseFile(name), existing)

\* The files a run may find at its start, for the timestamps ts.
CandidateFiles(ts) ==
    UNION { { RequestFile(TestName(BaseName(t), c)),
              ResponseFile(TestName(BaseName(t), c)) } :
            t \in ts, c \in 0..MaxCounter }

\* Everything but the log writers is at rest.
FileRest ==
    /\ Quiet
    /\ path = <<"/", "a", "/", "x">>
    /\ defaultLogging = TRUE
    /\ bodyNil = FALSE
    /\ inbound = <<>>
    /\ hpc = "off"
    /\ rpc = "off"
    /\ config = {}
    /\ routeTable = <<>>
    /\ rawQuery = <<>>
    /\ target = <<>>
    /\ mux = {}
    /\ ConcOff
    /\ NoEncoding
    /\ SinkOff
    /\ DecodeOff
    /\ LogServerOff
    /\ StreamOff
    /\ gcounter = [w \in Writers |-> 0]
    /\ gname = [w \in Writers |-> ""]
    /\ gwrote = [w \in Writers |-> {}]

BodyFlags == [request : BOOLEAN, response : BOOLEAN]

\* One log writer, over any set of files that exist.
NameInit ==
    /\ FileRest
    /\ gts \in [Writers -> Timestamps]
    /\ \A w \in Writers : w > 1 => gts[w] = gts[1]
    /\ gbodies \in [Writers -> BodyFlags]
    /\ \A w \in Writers : w > 1 => gbodies[w] = gbodies[1]
    /\ gpc = [w \in Writers |-> IF w = 1 THEN "start" ELSE "idle"]
    /\ disk \in SUBSET CandidateFiles({gts[1]})

\* Several log writers at the same time, with timestamps that may be equal.
FileInit ==
    /\ FileRest
    /\ gts \in [Writers -> { t \in Timestamps : t.sec = 5 }]
    /\ gbodies \in [Writers -> BodyFlags]
    /\ gpc = [w \in Writers |-> "start"]
    /\ disk \in { {}, { RequestFile(BaseName([sec |-> 5, nsec |-> 0])) } }

fileFrame == <<inputVars, inboundVars, backendVars, handlerVars, clientVars,
               transportVars, logVars, warnings, legacyVars, routingVars,
               concVars, hdrVars, sinkVars, decodeVars, logServerVars,
               streamVars, gts, gbodies>>

\* One turn of the loop of generateUniqueFilename: the name is returned when
\* neither of its files exists, else the counter goes up.
generateUniqueFilename(w) ==
    /\ gpc[w] = "start"
    /\ LET testName == TestName(BaseName(gts[w]), gcounter[w])
       IN  IF ~NameTaken(testName, disk)
           THEN /\ gname' = [gname EXCEPT ![w] = testName]
                /\ gpc' = [gpc EXCEPT ![w] = "named"]
                /\ UNCHANGED gcounter
           ELSE /\ gcounter' = [gcounter EXCEPT ![w] = @ + 1]
                /\ UNCHANGED <<gname, gpc>>
    /\ UNCHANGED <<fileFrame, disk, gwrote>>

\* os.WriteFile(baseFilename+"-request.bin", ...) when the request body is
\* not empty.
SaveRequest(w) ==
    /\ gpc[w] = "named"
    /\ IF gbodies[w].request
       THEN /\ disk' = disk \cup {RequestFile(gname[w])}
            /\ gwrote' = [gwrote EXCEPT ![w] = @ \cup {RequestFile(gname[w])}]
       ELSE UNCHANGED <<disk, gwrote>>
    /\ gpc' = [gpc EXCEPT ![w] = "saved"]
    /\ UNCHANGED <<fileFrame, gcounter, gname>>

\* os.WriteFile(baseFilename+"-response.bin", ...) when the response body is
\* not empty.
SaveResponse(w) ==
    /\ gpc[w] = "saved"
    /\ IF gbodies[w].response
       THEN /\ disk' = disk \cup {ResponseFile(gname[w])}
            /\ gwrote' = [gwrote EXCEPT ![w] = @ \cup {ResponseFile(gname[w])}]
       ELSE UNCHANGED <<disk, gwrote>>
    /\ gpc' = [gpc EXCEPT ![w] = "done"]
    /\ UNCHANGED <<fileFrame, gcounter, gname>>

FileNext ==
    \/ \E w \in Writers : generateUniqueFilename(w)
    \/ \E w \in Writers : SaveRequest(w)
    \/ \E w \in Writers : SaveResponse(w)

NameSpec == NameInit /\ [][FileNext]_vars

FileSpec == FileInit /\ [][FileNext]_vars

(***************************************************************************)
(* src/unnamed/part_004, part_005: the logging server                      *)
(***************************************************************************)
RECURSIVE TrimLeft(_)
TrimLeft(toks) ==
    IF toks # <<>> /\ Head(toks) = "/" THEN TrimLeft(Tail(toks)) ELSE toks

RECURSIVE TrimRight(_)
TrimRight(toks) ==
    IF toks # <<>> /\ toks[Len(toks)] = "/"
    THEN TrimRight(SubSeq(toks, 1, Len(toks) - 1))
    ELSE toks

\* strings.Trim(path, "/").
Trim(toks) == TrimRight(TrimLeft(toks))

RECURSIVE SplitFrom(_, _, _)
SplitFrom(toks, cur, out) ==
    IF toks = <<>> THEN Append(out, cur)
    ELSE IF Head(toks) = "/" THEN SplitFrom(Tail(toks), "", Append(out, cur))
    ELSE SplitFrom(Tail(toks), cur \o Head(toks), out)

\* strings.Split(s, "/"): the parts between the separators, "" included.
Split(toks) == SplitFrom(toks, "", <<>>)

LogMethods == {"PUT", "GET", "POST"}

LogIDs == {"uuid-1", "abc", "1234567", "12345678", "123456789"}

\* The URL paths sent to the logging server.
LogPaths ==
    { <<>>, <<"/">>, <<"/", "request">>, <<"/", "/", "response">> }
      \cup { <<"/", id>> : id \in LogIDs }
      \cup { <<"/", id, "/", k>> : id \in LogIDs, k \in Kinds \cup {"other"} }
      \cup { <<"/", id, "/", k, "/">> : id \in LogIDs, k \in Kinds }
      \cup { <<"/", id, "/", "/", k>> : id \in LogIDs, k \in Kinds }
      \cup { <<"/", id, "/", k, "/", "x">> : id \in LogIDs, k \in Kinds }

\* The request as handleLogRequest sees it.
LogRequestOf(m, rawPath) ==
    [method |-> m, server |-> LoggingServerURL, path |-> Split(Trim(rawPath)),
     contentType |-> "application/octet-stream"]

LogServerInit ==
    /\ Quiet
    /\ path = <<"/", "a", "/", "x">>
    /\ defaultLogging = TRUE
    /\ bodyNil = FALSE
    /\ inbound = <<>>
    /\ hpc = "off"
    /\ rpc = "off"
    /\ config = {}
    /\ routeTable = <<>>
    /\ rawQuery = <<>>
    /\ target = <<>>
    /\ mux = {}
    /\ ConcOff
    /\ NoEncoding
    /\ SinkOff
    /\ DecodeOff
    /\ FileOff
    /\ StreamOff
    /\ lsMethod \in LogMethods
    /\ lsPath \in LogPaths
    /\ lsCreateErr \in BOOLEAN
    /\ lsCopyErr \in IF lsCreateErr THEN {FALSE} ELSE BOOLEAN
    /\ lsPc = "start"
    /\ lsStatus = 0
    /\ lsFiles = {}

restVars == <<inputVars, inboundVars, backendVars, handlerVars, clientVars,
              transportVars, logVars, warnings, legacyVars, routingVars,
              concVars, hdrVars, sinkVars, decodeVars, streamVars, fileVars>>

\* handleLogRequest up to the file name: the method, the path and the
\* stream type are checked and requestID[:8] is taken.
LogServerCheck ==
    /\ lsPc = "start"
    /\ LET answers == handleLogRequest(LogRequestOf(lsMethod, lsPath))
       IN  IF answers = {NoStatus}
           THEN /\ lsPc' = "panicked"
                /\ UNCHANGED lsStatus
           ELSE IF answers = SinkStatuses
           THEN /\ lsPc' = "create"
                /\ UNCHANGED lsStatus
           ELSE /\ lsStatus' = CHOOSE st \in answers : TRUE
                /\ lsPc' = "done"
    /\ UNCHANGED <<restVars, lsMethod, lsPath, lsCreateErr, lsCopyErr, lsFiles>>

\* os.Create(filename): 500 on an error.
LogServerCreate ==
    /\ lsPc = "create"
    /\ IF lsCreateErr
       THEN /\ lsStatus' = StatusInternalServerError
            /\ lsPc' = "done"
            /\ UNCHANGED lsFiles
       ELSE /\ LET parts == LogRequestOf(lsMethod, lsPath).path
               IN  lsFiles' = lsFiles \cup { <<IDPrefix(parts[1]), parts[2]>> }
            /\ lsPc' = "copy"
            /\ UNCHANGED lsStatus
    /\ UNCHANGED <<restVars, lsMethod, lsPath, lsCreateErr, lsCopyErr>>

\* io.Copy(file, r.Body): 500 on an error, else 201.
LogServerCopy ==
    /\ lsPc = "copy"
    /\ lsStatus' = IF lsCopyErr THEN StatusInternalServerError ELSE StatusCreated
    /\ lsPc' = "done"
    /\ UNCHANGED <<restVars, lsMethod, lsPath, lsCreateErr, lsCopyErr, lsFiles>>

LogServerNext ==
    \/ LogServerCheck
    \/ LogServerCreate
    \/ LogServerCopy

LogServerSpec == LogServerInit /\ [][LogServerNext]_vars

(***************************************************************************)
(* The content-decoding pipeline: decompress(stream, encoding)             *)
(***************************************************************************)
MaxEncodings == 2

Plaintexts == {"q1", "q2"}

\* The compressions a client or a backend applies to a body.
Codecs == {"gzip", "deflate", "br"}

\* One compression of the data x with the codec c.
Compress(c, x) == c \o "(" \o x \o ")"

\* Entries as they stand between the commas of a Content-Encoding header.
EncodingTokens ==
    {"gzip", "GZIP", " gzip", "x-gzip", "deflate", "br", "identity", "Identity",
     "", "zstd"}

\* strings.ToLower(strings.TrimSpace(entry)).
Normalize(entry) ==
    CASE entry \in {"GZIP", " gzip"} -> "gzip"
      [] entry = "Identity" -> "identity"
      [] OTHER -> entry

\* The decoder of one entry: a codec, "identity" for no transformation, or
\* "unsupported".
Decoder(entry) ==
    LET e == Normalize(entry)
    IN  CASE e \in {"gzip", "x-gzip"} -> "gzip"
          [] e = "deflate" -> "deflate"
          [] e = "br" -> "br"
          [] e \in {"", "identity"} -> "identity"
          [] OTHER -> "unsupported"

\* The compression a sender applies for one entry of the header.
Encoder(entry) == Decoder(entry)

RECURSIVE CompressedUpTo(_)
\* Every body under at most n compressions.
CompressedUpTo(n) ==
    IF n = 0 THEN Plaintexts
    ELSE LET inner == CompressedUpTo(n - 1)
         IN  inner \cup { Compress(c, x) : c \in Codecs, x \in inner }

RECURSIVE CompressAll(_, _)
\* The sender: the encodings are applied in the order the header lists them.
CompressAll(x, encs) ==
    IF encs = <<>> THEN x
    ELSE LET inner == CompressAll(x, SubSeq(encs, 1, Len(encs) - 1))
             c == Encoder(encs[Len(encs)])
         IN  IF c \in Codecs THEN Compress(c, inner) ELSE inner

\* One decompressing reader of the codec c over the data w.
DecodeStage(c, w) ==
    LET from == { x \in CompressedUpTo(MaxEncodings) : Compress(c, x) = w }
    IN  IF from = {} THEN [ok |-> FALSE, data |-> w]
        ELSE [ok |-> TRUE, data |-> CHOOSE x \in from : TRUE]

RECURSIVE decompress_ListedOrder(_, _)
decompress_ListedOrder(w, encs) ==
    IF encs = <<>> THEN [ok |-> TRUE, data |-> w]
    ELSE LET c == Decoder(encs[1])
         IN  IF c = "identity" THEN decompress_ListedOrder(w, Tail(encs))
             ELSE IF c = "unsupported" THEN [ok |-> FALSE, data |-> w]
             ELSE LET d == DecodeStage(c, w)
                  IN  IF d.ok THEN decompress_ListedOrder(d.data, Tail(encs))
                      ELSE d

RECURSIVE decompress(_, _)
\* decompress(stream, encoding): the decoders of the entries are applied
\* from the last entry to the first, each on the output of the one before.
decompress(w, encs) ==
    IF encs = <<>> THEN [ok |-> TRUE, data |-> w]
    ELSE LET c == Decoder(encs[Len(encs)])
             rest == SubSeq(encs, 1, Len(encs) - 1)
         IN  IF c = "identity" THEN decompress(w, rest)
             ELSE IF c = "unsupported" THEN [ok |-> FALSE, data |-> w]
             ELSE LET d == DecodeStage(c, w)
                  IN  IF d.ok THEN decompress(d.data, rest) ELSE d

\* The line the log message gets when its body could not be decoded.
DecodeErrorMarker == "X-Decode-Error"

logBody_MarkerOnly(w, encs) ==
    LET d == decompress(w, encs)
    IN  IF d.ok THEN <<d.data>> ELSE <<DecodeErrorMarker>>

\* The body of the raw log message for the wire body w: the decompressed
\* body, or on a decode error the marker followed by the raw bytes.
logBody(w, encs) ==
    LET d == decompress(w, encs)
    IN  IF d.ok THEN <<d.data>> ELSE <<DecodeErrorMarker, w>>

EncodingLists ==
    UNION { [1..n -> EncodingTokens] : n \in 0..MaxEncodings }

baseVars == <<inputVars, inboundVars, backendVars, handlerVars, clientVars,
              transportVars, logVars, warnings, legacyVars, routingVars,
              concVars, hdrVars, sinkVars,
              logServerVars,
              streamVars,
              fileVars>>

\* A client sends one body under a Content-Encoding header: compressed as
\* the header says, or bytes that are not what the header says.
DecodeInit ==
    /\ Quiet
    /\ path = <<"/", "a", "/", "x">>
    /\ defaultLogging = TRUE
    /\ bodyNil = FALSE
    /\ inbound = <<>>
    /\ hpc = "off"
    /\ rpc = "off"
    /\ config = {}
    /\ routeTable = <<>>
    /\ rawQuery = <<>>
    /\ target = <<>>
    /\ mux = {}
    /\ ConcOff
    /\ NoEncoding
    /\ SinkOff
    /\ FileOff
    /\ StreamOff
    /\ LogServerOff
    /\ dpc = "start"
    /\ dplain \in Plaintexts
    /\ dencs \in EncodingLists
    /\ dwire \in {CompressAll(dplain, dencs), "corrupt"}
    /\ dbackend = <<>>
    /\ dtap = <<>>
    /\ dlog = <<>>
    /\ dstatus = 0

\* The forwarder reads the body through the tee: the bytes go to the backend
\* and to the tap of the log.
DecodeForward ==
    /\ dpc = "start"
    /\ dbackend' = <<dwire>>
    /\ dtap' = <<dwire>>
    /\ dpc' = "forwarded"
    /\ UNCHANGED <<baseVars, dplain, dencs, dwire, dlog, dstatus>>

\* The logging goroutine reads the tap and writes the body of the message.
DecodeLog ==
    /\ dtap # <<>>
    /\ dlog' = logBody(dtap[1], dencs)
    /\ dtap' = <<>>
    /\ UNCHANGED <<baseVars, dpc, dplain, dencs, dwire, dbackend, dstatus>>

\* The backend answers and the status is written to the client.
DecodeRespond ==
    /\ dpc = "forwarded"
    /\ dstatus' = upstreamStatus
    /\ dpc' = "done"
    /\ UNCHANGED <<baseVars, dplain, dencs, dwire, dbackend, dtap, dlog>>

DecodeNext ==
    \/ DecodeForward
    \/ DecodeLog
    \/ DecodeRespond

DecodeSpec == DecodeInit /\ [][DecodeNext]_vars

(***************************************************************************)
(* src/logger.go, src/file_logger.go: the Logger implementations           *)
(***************************************************************************)
Loggers == {"NoOpLogger", "FileLogger"}

coreVars == <<inputVars, inboundVars, backendVars, handlerVars, clientVars,
              transportVars, logVars, warnings, legacyVars, routingVars,
              concVars, hdrVars, decodeVars,
              logServerVars,
              streamVars,
              fileVars>>

\* One logger is called with the read end of the pipe a tee writes to.
SinkInit ==
    /\ Quiet
    /\ path = <<"/", "a", "/", "x">>
    /\ defaultLogging = TRUE
    /\ bodyNil = FALSE
    /\ inbound = <<>>
    /\ hpc = "off"
    /\ rpc = "off"
    /\ config = {}
    /\ routeTable = <<>>
    /\ rawQuery \in {<<>>, <<"k=v">>}
    /\ target = <<>>
    /\ mux = {}
    /\ ConcOff
    /\ NoEncoding
    /\ DecodeOff
    /\ FileOff
    /\ StreamOff
    /\ LogServerOff
    /\ logger \in Loggers
    /\ loggedType \in Kinds
    /\ stream = NewPipe
    /\ teeSrc \in IF loggedType = "request" THEN ReqBodies ELSE RespBodies
    /\ teeErr = FALSE
    /\ fpc = "start"
    /\ createErr \in IF logger = "FileLogger" THEN BOOLEAN ELSE {FALSE}
    /\ writeErrAt \in IF logger = "FileLogger" /\ ~createErr
                      THEN 0..(Len(teeSrc) + 1) ELSE {0}
    /\ file = NoFile
    /\ sawEOF = FALSE

\* io.TeeReader: a Read of the forwarder writes the chunk to the pipe; the
\* Write returns once the chunk is read, or io.ErrClosedPipe when the read
\* end is closed.
TeeWrite ==
    /\ teeSrc # <<>>
    /\ ~stream.wclosed
    /\ ~teeErr
    /\ stream.buf = <<>>
    /\ IF stream.rclosed
       THEN /\ teeErr' = TRUE
            /\ UNCHANGED <<stream, teeSrc>>
       ELSE /\ stream' = [stream EXCEPT !.buf = <<Head(teeSrc)>>]
            /\ teeSrc' = Tail(teeSrc)
            /\ UNCHANGED teeErr
    /\ UNCHANGED <<coreVars, logger, loggedType, fpc, createErr, writeErrAt,
                   file, sawEOF>>

\* The forwarder closes the write end at the end of the body or after a
\* failed Write.
TeeClose ==
    /\ ~stream.wclosed
    /\ stream.buf = <<>>
    /\ teeSrc = <<>> \/ teeErr
    /\ stream' = [stream EXCEPT !.wclosed = TRUE]
    /\ UNCHANGED <<coreVars, logger, loggedType, teeSrc, teeErr, fpc, createErr,
                   writeErrAt, file, sawEOF>>

\* NoOpLogger.LogRequest / LogResponse: io.Copy(io.Discard, stream) and the
\* deferred stream.Close().
NoOpLoggerLog ==
    /\ logger = "NoOpLogger"
    /\ fpc \in {"start", "copy"}
    /\ \/ /\ stream.buf # <<>>
          /\ stream' = [stream EXCEPT !.buf = <<>>]
          /\ fpc' = "copy"
          /\ UNCHANGED sawEOF
       \/ /\ stream.buf = <<>>
          /\ stream.wclosed
          /\ sawEOF' = TRUE
          /\ stream' = [stream EXCEPT !.rclosed = TRUE]
          /\ fpc' = "returned"
    /\ UNCHANGED <<coreVars, logger, loggedType, teeSrc, teeErr, createErr,
                   writeErrAt, file>>

\* FileLogger.logStream up to os.Create: on an error it returns, and the
\* deferred stream.Close() runs; a Write of the tee that is waiting to be
\* read returns io.ErrClosedPipe.
logStream ==
    /\ logger = "FileLogger"
    /\ fpc = "start"
    /\ IF createErr
       THEN /\ stream' = [stream EXCEPT !.rclosed = TRUE, !.buf = <<>>]
            /\ teeErr' = (teeErr \/ stream.buf # <<>>)
            /\ fpc' = "returned"
            /\ UNCHANGED file
       ELSE /\ file' = [file EXCEPT !.created = TRUE]
            /\ fpc' = "header"
            /\ UNCHANGED <<stream, teeErr>>
    /\ UNCHANGED <<coreVars, logger, loggedType, teeSrc, createErr, writeErrAt,
                   sawEOF>>

\* writeHTTPStream(file, streamType, request, response, stream, ""): the
\* request line or status line and the headers.
writeHTTPStream ==
    /\ logger = "FileLogger"
    /\ fpc = "header"
    /\ IF writeErrAt = 1
       THEN /\ stream' = [stream EXCEPT !.rclosed = TRUE, !.buf = <<>>]
            /\ teeErr' = (teeErr \/ stream.buf # <<>>)
            /\ fpc' = "returned"
            /\ UNCHANGED file
       ELSE /\ file' = [file EXCEPT !.header =
                   IF loggedType = "request"
                   THEN RequestHeader(method,
                            path \o (IF rawQuery # <<>> THEN <<"?">> \o rawQuery
                                                         ELSE <<>>),
                            RequestHost, <<>>, reqHeaders)
                   ELSE ResponseHeader(upstreamStatus, respHeaders)]
            /\ fpc' = "copy"
            /\ UNCHANGED <<stream, teeErr>>
    /\ UNCHANGED <<coreVars, logger, loggedType, teeSrc, createErr, writeErrAt,
                   sawEOF>>

\* io.Copy(writer, bodyStream) of writeHTTPStream, then saveMetadata and the
\* deferred stream.Close(); a failed Write returns at once.
writeHTTPStreamCopy ==
    /\ logger = "FileLogger"
    /\ fpc = "copy"
    /\ \/ /\ stream.buf # <<>>
          /\ IF writeErrAt = Len(file.body) + 2
             THEN /\ stream' = [stream EXCEPT !.rclosed = TRUE, !.buf = <<>>]
                  /\ fpc' = "returned"
                  /\ UNCHANGED file
             ELSE /\ stream' = [stream EXCEPT !.buf = <<>>]
                  /\ file' = [file EXCEPT !.body = @ \o stream.buf]
                  /\ UNCHANGED fpc
          /\ UNCHANGED sawEOF
       \/ /\ stream.buf = <<>>
          /\ stream.wclosed
          /\ sawEOF' = TRUE
          /\ file' = [file EXCEPT !.metadata = TRUE]
          /\ stream' = [stream EXCEPT !.rclosed = TRUE]
          /\ fpc' = "returned"
    /\ UNCHANGED <<coreVars, logger, loggedType, teeSrc, teeErr, createErr,
                   writeErrAt>>

SinkNext ==
    \/ TeeWrite
    \/ TeeClose
    \/ NoOpLoggerLog
    \/ logStream
    \/ writeHTTPStream
    \/ writeHTTPStreamCopy

SinkSpec == SinkInit /\ [][SinkNext]_vars

(***************************************************************************)
(* properties                                                              *)
(***************************************************************************)
\* The request was matched to a route and handed to proxyWithDuplex.
Proxied == ~route.Nil /\ route.Destination.ParseOK /\ hpc # "start"

\* streamToLoggingServer for stream k has returned and its writer goroutine
\* has ended.
LoggerEnded(k) ==
    wpc[k] = "done" /\ sink[k] \in {"done", "rejected", "failed", "timedOut"}

\* The request went through without a failure of the backend or the client.
CleanRun == Proxied /\ ~dispatchFailed /\ ~clientGone /\ err = <<>>

\* The client and the backend have everything and the handler has returned.
FullyServed ==
    /\ hpc = "done"
    /\ inbound = <<>> /\ backendRecv = reqRead
    /\ upstream = <<>> /\ clientRecv = respRead
    /\ clientStatus = upstreamStatus

\* C1 (tee backpressure): when the logging consumer of a tap stops reading
\* (its sink stalls, and later times out), the proxy path is never left
\* blocked for good: the handler has returned or a step is still possible.
C1_TeeBackpressure ==
    (\E k \in Kinds : sink[k] \in {"stalled", "timedOut"})
        => (hpc = "done" \/ ENABLED Next)

\* C2 (logging-sink failure isolation): when a push has failed, at whatever
\* point of the body, a request that meets no backend or client failure is
\* still served in full: the backend has the whole request body, the client
\* the upstream status and the whole response body, and the handler returns.
C2_SinkFailureIsolated ==
    (CleanRun /\ \E k \in Kinds : sink[k] = "failed")
        => (FullyServed \/ ENABLED Next)

\* C3 (wire transparency): what the backend has received is always the
\* beginning of what was read from the inbound body, and what the client has
\* received of a proxied response is always the beginning of what was read
\* from the upstream body; after a run without failure both are equal.
C3_WireTransparency ==
    Proxied =>
        /\ HasPrefix(reqRead, backendRecv)
        /\ gotResponse => HasPrefix(respRead, clientRecv)
        /\ (hpc = "done" /\ gotResponse /\ err = <<>>) =>
               (backendRecv = reqRead /\ clientRecv = respRead)

\* The write end of every tap that was set up is closed.
TapsClosed == \A k \in Kinds : (spawned[k] > 0 /\ wsrc[k] = "tap") => tap[k].wclosed

C5_HeadersBeforeBody ==
    (Proxied /\ (respRead # <<>> \/ held # <<>>))
        => (gotResponse /\ clientStatus = upstreamStatus)

C5_Witness ==
    /\ Proxied /\ respRead # <<>> /\ clientRecv = <<>>
    /\ clientStatus = upstreamStatus

\* C6 (streaming without buffering): whatever the Content-Type and the
\* Transfer-Encoding of the response, a chunk read from the upstream body is
\* written to the client before the next one is read: at most one chunk is
\* ever held between the upstream read and the client write.
C6_NoBuffering == Len(held) <= 1

\* C7 (upstream dispatch failure): after a failed dispatch the client has
\* status 502 and a body holding the request ID and the error text.
C7_BadGatewayBody ==
    (hpc = "done" /\ dispatchFailed) =>
        /\ clientStatus = StatusBadGateway
        /\ Contains(clientRecv, requestID)
        /\ \A i \in 1..Len(err) : Contains(clientRecv, err[i])

\* C8 (no response log, no retry): once the dispatch has failed, no
\* response log is ever started and client.Do was called exactly once.
C8_NoResponseLogNoRetry ==
    dispatchFailed => (spawned["response"] = 0 /\ doAttempts = 1)

C8_Witness ==
    /\ dispatchFailed /\ hpc = "done" /\ shouldLog
    /\ LoggerEnded("request")

\* C9 (request log completes after a failed dispatch): with logging, a
\* failed dispatch is followed by the end of the request log: its stream
\* reaches end-of-stream and its goroutines end.
C9_RequestLogCompletes ==
    (dispatchFailed /\ shouldLog)
        ~> (push["request"].wclosed /\ LoggerEnded("request"))

C9_Witness ==
    /\ dispatchFailed /\ shouldLog /\ ~bodyNil
    /\ tap["request"].wclosed /\ push["request"].wclosed
    /\ wpc["request"] = "done" /\ sink["request"] = "done"

\* C10 (unmatched-route logging toggle): a request that matched no route and
\* was answered has status 404; with default logging exactly one request log
\* and one response log (status 404) were started, without it none.
C10_UnmatchedToggle ==
    (route.Nil /\ hpc = "done") =>
        /\ clientStatus = StatusNotFound
        /\ IF defaultLogging
           THEN /\ \A k \in Kinds : spawned[k] = 1
                /\ header["response"].status = StatusNotFound
           ELSE \A k \in Kinds : spawned[k] = 0

C10_Witness ==
    /\ route.Nil /\ hpc = "done" /\ defaultLogging
    /\ \A k \in Kinds : spawned[k] = 1 /\ sink[k] = "done"

\* The body the logging server has received for one side of the request.
RECURSIVE LoggedBodyFrom(_)
LoggedBodyFrom(items) ==
    IF items = <<>>
    THEN <<>>
    ELSE (IF Head(items).isHeader THEN <<>> ELSE Head(items).data)
             \o LoggedBodyFrom(Tail(items))

LoggedBody(k) == LoggedBodyFrom(sinkRecv[k])

\* C11 (404 consistency): a request that no configured pattern matched is
\* answered with status 404 and the body of the unlogged 404 answer, with
\* default logging as without it, and the body the logging server received
\* for the response is the body written to the client.
C11_NotFoundConsistency ==
    (rpc = "unknown" /\ hpc = "done") =>
        /\ clientStatus = StatusNotFound
        /\ clientRecv = Fprintln(NotFoundText)
        /\ sink["response"] = "done" => LoggedBody("response") = clientRecv

\* C12 (effective logging decision): a matched request is logged exactly
\* when its route's logging key is true, or is absent while the system
\* default is true; an explicit false wins over a true default.
C12_EffectiveLogging ==
    Proxied =>
        (shouldLog <=> (\/ route.Flag = "true"
                        \/ route.Flag = "unset" /\ defaultLogging))

\* C13 (per-route override): for a request matched to a route with logging
\* off no request-log and no response-log push is ever started; for a request
\* matched to a route with logging on that the backend answered, one of each
\* was started by the time the handler returns.
C13_PerRouteOverride ==
    /\ (Proxied /\ route.Flag = "false") => \A k \in Kinds : spawned[k] = 0
    /\ (Proxied /\ route.Flag = "true" /\ gotResponse /\ hpc = "done")
           => \A k \in Kinds : spawned[k] = 1

C13_Witness ==
    /\ Proxied /\ route.Flag = "false" /\ hpc = "done" /\ gotResponse
    /\ respRead # <<>> /\ clientRecv = respRead
    /\ \A k \in Kinds : spawned[k] = 0 /\ sink[k] = "none"

\* C25 (log cardinality and pairing): at most one request-log and one
\* response-log push are started for the request, each under the request's
\* own ID; a logged request the backend answered has exactly one of each by
\* the time the handler returns, and a response log always has a request log
\* of the same ID.
C25_LogCardinality ==
    /\ \A k \in Kinds :
         /\ spawned[k] <= 1
         /\ spawned[k] = 1 => (Len(logReq[k].path) >= 1 /\ logReq[k].path[1] = requestID)
    /\ (Proxied /\ shouldLog /\ gotResponse /\ hpc = "done")
           => \A k \in Kinds : spawned[k] = 1
    /\ spawned["response"] = 1
           => (spawned["request"] = 1
               /\ logReq["request"].path[1] = logReq["response"].path[1])

C25_Witness ==
    /\ Proxied /\ shouldLog /\ gotResponse /\ hpc = "done"
    /\ \A k \in Kinds : spawned[k] = 1 /\ sinkRecv[k] # <<>> /\ sink[k] = "done"

\* C26 (causal ordering of pushes): the response-log push is only ever
\* started in a step after the one that started the request-log push.
C26_RequestPushFirst ==
    [][spawned'["response"] > spawned["response"]
          => (spawned["request"] = 1 /\ spawned'["request"] = 1)]_vars

C26_Witness ==
    /\ spawned["request"] = 1 /\ spawned["response"] = 1
    /\ sink["response"] = "done" /\ sink["request"] = "open"

\* C27 (push wire contract): every push is a PUT to
\* serverURL/requestID/streamType with Content-Type application/octet-stream,
\* and the logging server's handler never rejects one with 405 or 400.
C27_PushWireContract ==
    \A k \in Kinds :
        /\ spawned[k] >= 1 =>
             /\ logReq[k].method = "PUT"
             /\ logReq[k].server = LoggingServerURL
             /\ logReq[k].path = <<requestID, k>>
             /\ logReq[k].contentType = "application/octet-stream"
        /\ sink[k] # "rejected"

C27_Witness ==
    \A k \in Kinds :
        /\ logReq[k].path = <<requestID, k>>
        /\ sink[k] = "done"
        /\ ~\E w \in warnings : w.what = "Logging server returned"

\* C24 (concurrent isolation): requests handled at the same time have
\* different request IDs, and what the logging server holds under the path
\* of an ID and a stream type are parts of that stream of the request with
\* that ID only.
C24_ConcurrentIsolation ==
    /\ \A r, q \in ConcRequests :
         (r # q /\ cid[r] # "" /\ cid[q] # "") => cid[r] # cid[q]
    /\ \A u \in DOMAIN cstore : \A i \in 1..Len(cstore[u]) :
         /\ cid[cstore[u][i].owner] = u[1]
         /\ cstore[u][i].kind = u[2]

C24_Witness ==
    /\ \A r \in ConcRequests :
         /\ cpc[r] = "done"
         /\ \A k \in Kinds : cpush[r][k] = <<>> /\ Len(cstore[<<cid[r], k>>]) = 2
    /\ cid[1] # cid[2]

\* gzip.NewReader on one chunk of the wire: the chunk it was compressed from.
Gunzip(w) ==
    LET names == { ReqChunkNames[i] : i \in DOMAIN ReqChunkNames }
                     \cup { RespChunkNames[i] : i \in DOMAIN RespChunkNames }
    IN  IF \E c \in names : Gzip(c) = w
        THEN CHOOSE c \in names : Gzip(c) = w
        ELSE "gzip: invalid header"

Plaintext(body) == [i \in DOMAIN body |-> Gunzip(body[i])]

HasContentEncoding(fields) == \E f \in fields : f[1] = "Content-Encoding"

\* C21 (decompressed logging): the log message of a request or response that
\* carries Content-Encoding gzip has no Content-Encoding header and its body
\* is the decompressed plaintext of what was read from the wire, while the
\* backend and the client are sent the compressed bytes.
C21_DecompressedLogging ==
    /\ (spawned["request"] >= 1 /\ <<"Content-Encoding", "gzip">> \in reqHeaders) =>
         /\ ~HasContentEncoding(header["request"].fields)
         /\ HasPrefix(Plaintext(reqRead), LoggedBody("request"))
    /\ (spawned["response"] >= 1 /\ Proxied
            /\ <<"Content-Encoding", "gzip">> \in respHeaders) =>
         /\ ~HasContentEncoding(header["response"].fields)
         /\ HasPrefix(Plaintext(respRead), LoggedBody("response"))
    /\ Proxied => HasPrefix(reqRead, backendRecv)
    /\ (Proxied /\ gotResponse /\ err = <<>>) => HasPrefix(respRead, clientRecv)

\* The request line of a logged request is the absolute destination URL.
IsAbsoluteTarget(uri) == uri # <<>> /\ uri[1] = "http://"

\* C28 (one Host policy): a logged request message has a Host header exactly
\* when its request line is a relative target, and then the value is the
\* host of the destination the request is sent to, never the Host of the
\* inbound request.
C28_OneHostPolicy ==
    spawned["request"] >= 1 =>
        /\ (header["request"].host # "") <=> ~IsAbsoluteTarget(header["request"].uri)
        /\ header["request"].host # "" =>
             /\ header["request"].host = targetURL.Host
             /\ header["request"].host # RequestHost

\* C29 (X-Proxy-Path): every logged request message, from every sink, has
\* an X-Proxy-Path header whose value is the inbound URL of the request:
\* scheme, host, path and raw query.
C29_XProxyPath ==
    /\ spawned["request"] >= 1 => header["request"].proxyPath = ProxyPath(path)
    /\ (loggedType = "request" /\ file.header # NoHeader) =>
           file.header.proxyPath = ProxyPath(path)

\* C30 (sinks drain and close): a Logger implementation closes the stream
\* only after it has read it to end-of-stream, and when it returns the
\* stream is read to end-of-stream and closed; the tee never has a Write
\* refused.
C30_SinksDrainAndClose ==
    /\ stream.rclosed => sawEOF
    /\ fpc = "returned" => (sawEOF /\ stream.rclosed)
    /\ ~teeErr

\* Every entry of the list names a supported encoding or no encoding.
AllSupported(encs) == \A i \in DOMAIN encs : Decoder(encs[i]) # "unsupported"

\* C22 (decompression chain): for a Content-Encoding list e1, ..., en of
\* supported entries, decompress undoes the compressions from en back to e1,
\* so that decompressing what the sender compressed in the listed order gives
\* the body back; an entry that is empty or "identity", in any case and with
\* surrounding blanks, leaves the stream unchanged.
C22_DecompressionChain ==
    /\ AllSupported(dencs) =>
          decompress(CompressAll(dplain, dencs), dencs) = [ok |-> TRUE, data |-> dplain]
    /\ (dlog # <<>> /\ AllSupported(dencs) /\ dwire # "corrupt") => dlog = <<dplain>>
    /\ \A e \in {"", "identity", "Identity"} :
          /\ decompress(dwire, <<e>>) = [ok |-> TRUE, data |-> dwire]
          /\ decompress(dwire, dencs \o <<e>>) = decompress(dwire, dencs)
          /\ decompress(dwire, <<e>> \o dencs) = decompress(dwire, dencs)

\* A body under two different compressions has been decoded for the log.
C22_Witness ==
    /\ Len(dencs) = 2
    /\ Decoder(dencs[1]) \in Codecs
    /\ Decoder(dencs[2]) \in Codecs
    /\ Decoder(dencs[1]) # Decoder(dencs[2])
    /\ dwire = Compress(Decoder(dencs[2]), Compress(Decoder(dencs[1]), dplain))
    /\ dlog = <<dplain>>

C31_RouteTableImmutable == [][rpc # "new" => routeTable' = routeTable]_vars

\* A request has been routed over a table of several routes, which is still
\* the table NewProxyServer built.
C31_Witness ==
    /\ rpc \in {"proxied", "notFound", "invalid"}
    /\ Cardinality(DOMAIN routeTable) >= 2
    /\ \E order \in Orders(config) : routeTable = LoadRoutes(order, <<>>)

\* C32 (client disconnect is not an error): when the client is gone during
\* the copy of the response body, the handler closes the taps and returns; it
\* does not take the failed write as a proxy error, neither logging
\* "Proxy error" for it nor calling http.Error with 502.
C32_ClientDisconnectNotError ==
    /\ ~(hpc = "proxyError" /\ err = <<"write: broken pipe">>)
    /\ \A w \in warnings :
          w.what = "Proxy error" => w.text # <<"write: broken pipe">>
    /\ (clientGone /\ hpc = "done") => TapsClosed

\* C33 (unmatched-route ordering): on the unmatched path with default logging
\* on, the request-log goroutine and the response-log goroutine have both
\* been started before any byte of the 404 body is written to the client.
C33_UnmatchedOrdering ==
    (route.Nil /\ defaultLogging /\ hpc # "start") =>
        /\ clientRecv # <<>> => \A k \in Kinds : spawned[k] = 1
        /\ hpc = "done" => \A k \in Kinds : spawned[k] = 1

\* The 404 body is at the client and both pushes were started.
C33_Witness ==
    /\ route.Nil /\ defaultLogging
    /\ clientRecv = responseBody
    /\ \A k \in Kinds : spawned[k] = 1

\* C34 (response integrity after headers): once the upstream status is
\* written to the client, the status stays and every body byte the client
\* gets was read from the upstream body, whatever error ends the copy.
C34_ResponseIntegrity ==
    (Proxied /\ gotResponse /\ clientStatus # 0) =>
        /\ clientStatus = upstreamStatus
        /\ HasPrefix(respRead, clientRecv)

\* C35 (unmatched-route body capture): on the unmatched path the inbound
\* body is never closed while the request-log goroutine has not read it to
\* its end, and a request log that is complete holds the whole inbound body.
C35_UnmatchedBodyCapture ==
    (route.Nil /\ spawned["request"] >= 1 /\ wsrc["request"] = "body") =>
        /\ inboundClosed => inbound = <<>>
        /\ \A w \in warnings :
              ~(w.what = "Error streaming data" /\ w.text = <<"request">>)
        /\ (LoggerEnded("request") /\ sink["request"] = "done") =>
              (inbound = <<>> /\ LoggedBody("request") = reqRead)

\* C36 (logging server robustness): handleLogRequest answers every request
\* with a status and never panics: 405 for a method other than PUT, 400 and
\* no file for a path that has not exactly two segments or whose second
\* segment is neither "request" nor "response", and 201 or 500 for every
\* other PUT, whatever the length of its request ID.
C36_LogServerRobust ==
    LET req == LogRequestOf(lsMethod, lsPath)
        twoParts == Len(req.path) = 2
        goodType == twoParts /\ req.path[2] \in Kinds
    IN  /\ lsPc # "panicked"
        /\ lsPc = "done" =>
             /\ lsStatus # 0
             /\ lsMethod # "PUT" => lsStatus = StatusMethodNotAllowed
             /\ (lsMethod = "PUT" /\ ~goodType) =>
                   (lsStatus = StatusBadRequest /\ lsFiles = {})
             /\ (lsMethod = "PUT" /\ goodType) =>
                   lsStatus \in {StatusCreated, StatusInternalServerError}
        /\ (lsPc \notin {"off", "done"}) => ENABLED LogServerNext

\* C37 (StreamingLogger logs once): under any sequence of Reads the entry is
\* saved at most once, by the first Read that returns end-of-stream and by
\* no Read before it; Reads after end-of-stream save nothing more; and the
\* bytes returned to the caller are the bytes read from the wrapped body.
C37_StreamingLoggerLogsOnce ==
    lpc \in {"stream", "failed"} =>
        /\ Len(files) <= 1
        /\ Len(files) = (IF eofReads >= 1 THEN 1 ELSE 0)
        /\ logged <=> eofReads >= 1
        /\ files # <<>> => files[1] = LogEntry(requestBody, respRead, TRUE)
        /\ clientRecv = respRead
        /\ buffer = respRead

\* Read has returned end-of-stream three times over a body of two chunks and
\* one entry with the whole body is saved.
C37_Witness ==
    /\ lpc = "stream"
    /\ eofReads = 3
    /\ Len(respRead) = 2
    /\ files = <<LogEntry(requestBody, respRead, TRUE)>>

\* The files that existed when the only writer called generateUniqueFilename.
DiskAtCall == disk \ gwrote[1]

\* Neither file of the name with counter c existed at the call.
FreeAtCall(c) ==
    /\ RequestFile(TestName(BaseName(gts[1]), c)) \notin DiskAtCall
    /\ ResponseFile(TestName(BaseName(gts[1]), c)) \notin DiskAtCall

C39_UniqueLogFiles ==
    \A w1, w2 \in Writers : w1 # w2 => gwrote[w1] \cap gwrote[w2] = {}

\* The pattern semantics the routing claims are stated in: a pattern with a
\* trailing "/" stands for itself and everything below it, any other pattern
\* for itself only.
IsPrefixPattern(pattern) == pattern # <<>> /\ pattern[Len(pattern)] = "/"

PatternMatches(pattern, p) ==
    IF IsPrefixPattern(pattern) THEN HasPrefix(p, pattern) ELSE p = pattern

\* The registered patterns, and those that match the inbound path.
Registered == DOMAIN routeTable

Matching == { pattern \in Registered : PatternMatches(pattern, path) }

\* The request has been routed.
Resolved == rpc \in {"proxied", "invalid", "notFound"}

\* Two routes of the configuration have the same source.
HasDuplicates ==
    \E a, b \in config : a # b /\ RoutePool[a].Source = RoutePool[b].Source

\* C14 (most-specific match): when several registered patterns match the
\* path, the request resolves to the longest of them (an exact pattern that
\* matches is always the longest).
C14_MostSpecific ==
    (Resolved /\ Cardinality(Matching) >= 2) =>
        /\ ~route.Nil
        /\ route.Source \in Matching
        /\ \A pattern \in Matching : Len(pattern) <= Len(route.Source)

\* C15 (exact versus prefix): the route a request resolves to has a pattern
\* that matches the path: equal to it when the pattern has no trailing "/",
\* a prefix of it, "/" included, when it has one.
C15_ExactVersusPrefix ==
    (Resolved /\ ~route.Nil) => PatternMatches(route.Source, path)

\* C16 (catch-all): with the pattern "/" registered no request is unmatched,
\* and a path no other registered pattern matches resolves to the "/" route.
C16_CatchAll ==
    (Resolved /\ <<"/">> \in Registered) =>
        /\ ~route.Nil
        /\ (Matching = {<<"/">>}) => route.Source = <<"/">>

\* C17 (routing determinism): for a configuration without duplicate patterns
\* the route a request resolved to is the one the lookup returns under every
\* iteration order of the routes map.
C17_Deterministic ==
    (Resolved /\ ~HasDuplicates) =>
        \A order \in Orders(Registered) :
            findMatchingRoute([i \in 1..Len(order) |-> routeTable[order[i]]], path)
                = route

\* C18 (duplicate patterns): a configuration with two routes of the same
\* pattern never gets past start-up.
C18_DuplicatesFail ==
    HasDuplicates => rpc \in {"new", "failed"}

\* The part of the path below a prefix pattern, joined to a base path.
JoinPath(base, rest) ==
    (IF base # <<>> /\ base[Len(base)] = "/" THEN base ELSE base \o <<"/">>) \o rest

\* A configured route has a wildcard token in its pattern.
HasWildcardRoute ==
    \E name \in config :
        \E i \in 1..Len(MuxPool[name].Source) :
            MuxPool[name].Source[i] \in WildcardTokens

====
